---- MODULE Spec2Model ----
(***************************************************************************)
(* Model of the authenticated HTTP session engine of NavyD/dict:           *)
(*   - the cookie jar and its ingestion of Set-Cookie headers              *)
(*     (client/mod.rs, update_set_cookies),                                *)
(*   - the dispatcher send_request (client/mod.rs),                        *)
(*   - the Youdao and Maimemo clients (client/youdao_client.rs,            *)
(*     client/maimemo_client.rs),                                          *)
(*   - the interactive upload workflow MaimemoApp::upload_notepad          *)
(*     (main.rs).                                                          *)
(*                                                                         *)
(* Domains are sequences of labels, top-level label first                  *)
(* (dict.youdao.com = <<"com","youdao","dict">>), paths are sequences of   *)
(* segments ("/" = <<>>), so that domain-match and path-match are prefix   *)
(* tests and the default path of a URL is computed, not assumed.           *)
(***************************************************************************)
EXTENDS Integers, Sequences, FiniteSets, TLC

VARIABLES
    svc,        \* which client this is: "youdao" or "maimemo"
    config,     \* AppConfig.requests: the request templates, by name
    verbose,    \* whether the logger is initialised (main.rs:412), i.e. log macros evaluate their arguments
    jar,        \* the client's cookie_store: a set of cookies
    crashed,    \* a panic has unwound the client
    op,         \* the last operation called on the client
    arg,        \* the request name or notepad id it was called with
    result,     \* what that operation returned
    sent,       \* the HTTP requests that operation dispatched, in order
    served,     \* what the transport answered to each of them, in the same order
    resp,       \* the last response that operation received as Ok(resp): its URL and Set-Cookie headers
    urlCalls,   \* how many times that operation's url_handler closures ran
    \* ---- MaimemoApp::upload_notepad (main.rs) ----
    notepads,   \* MaimemoApp.notepads
    is_updated, \* MaimemoApp.is_updated
    stdin,      \* what the operator will still type: lines and end-of-stream marks
    pc,         \* position of upload_notepad
    new_notepad,\* the record built by get_uploaded_notepad
    upId,       \* the notepad_id argument
    upArgs,     \* the is_appending and timestamp arguments, and the lines of new content on stdin
    captcha,    \* the solution line read for the current attempt
    log,        \* the events of the current attempt, in order, from the answer that started it
    count,      \* how many attempts, captcha requests, save requests, failed saves and "y" answers so far
    upResult,   \* what upload_notepad returned
    dictionary, \* the snapshot file at config.get_dictionary_path()
    before,     \* notepads, is_updated and dictionary when upload_notepad was called
    \* ---- the cookie file (client/mod.rs save_cookie_store, build_cookie_store) ----
    cookie_path,\* whether config.get_cookie_path() is Some
    file,       \* the file at cookie_path: whether it exists and what it holds
    alive,      \* the client has been constructed and not yet dropped
    saved,      \* the jar the last drop handed to save_cookie_store, and how the save went
    \* ---- YoudaoApp::filter_offset (main.rs) ----
    offWords,   \* the list filter_offset is called on (its words argument)
    offArg,     \* its offset argument
    filtered,   \* what the call left: the list, or how the call ended
    \* ---- YoudaoApp::list (main.rs), called on offWords as word_items with offArg ----
    start_date, \* its start_date argument
    end_date,   \* its end_date argument
    listed,     \* what the call returned, and the list as sorted before filter_offset
    \* ---- WordStore (word_store.rs) ----
    store,      \* WordStore.words
    words_file, \* the file at the path given to persist and from_file
    persisted,  \* the words the last persist wrote, and whether it returned Ok
    loaded      \* what the last from_file returned

clientVars == <<svc, config, verbose, jar, crashed, op, arg, result, sent, served, resp, urlCalls>>
uploadVars == <<notepads, is_updated, stdin, pc, new_notepad, upId, upArgs, captcha, log, count, upResult,
                dictionary, before>>
fileVars == <<cookie_path, file, alive, saved>>
offsetVars == <<offWords, offArg, filtered, start_date, end_date, listed>>
storeVars == <<store, words_file, persisted, loaded>>
vars == <<svc, config, verbose, jar, crashed, op, arg, result, sent, served, resp, urlCalls,
          notepads, is_updated, stdin, pc, new_notepad, upId, upArgs, captcha, log, count, upResult,
          dictionary, before, cookie_path, file, alive, saved, offWords, offArg, filtered,
          start_date, end_date, listed, store, words_file, persisted, loaded>>

----------------------------------------------------------------------------
(* Bounds *)

\* longest list filter_offset is called on
MaxWords == 3

\* most words in the store that is persisted
MaxStored == 2

\* most Set-Cookie headers in one response
MaxSetCookies == 2

\* most Set-Cookie headers in the response to the Youdao priming request
MaxPrimeCookies == 1

\* most pages a Youdao word book has
MaxPages == 3

\* most attempts of one upload_notepad call
MaxAttempts == 3

\* most lines of new content the operator types
MaxLines == 1

----------------------------------------------------------------------------
(* Generic helpers *)

IsPrefix(s, t) == Len(s) <= Len(t) /\ SubSeq(t, 1, Len(s)) = s

RECURSIVE SeqsUpTo(_, _)
SeqsUpTo(S, n) ==
    IF n = 0 THEN {<<>>}
    ELSE LET shorter == SeqsUpTo(S, n - 1)
         IN  shorter \cup {Append(s, x) : s \in {t \in shorter : Len(t) = n - 1}, x \in S}

----------------------------------------------------------------------------
(* Services, domains, URLs *)

Services == {"youdao", "maimemo"}

Root == <<>>

\* the domain has_logged looks the session markers up under
ServiceDomain(s) ==
    IF s = "youdao" THEN <<"com", "youdao">> ELSE <<"com", "maimemo", "www">>

\* the names has_logged looks up
Markers(s) ==
    IF s = "youdao" THEN {"OUTFOX_SEARCH_USER_ID", "DICT_PERS"} ELSE {"userToken"}

Url(h, p) == [host |-> h, path |-> p]

----------------------------------------------------------------------------
(* The cookie jar (cookie_store::CookieStore as used by client/mod.rs) *)

\* A stored cookie.  The jar is a set of these; (domain, path, name) is the key.
\* persistent: the cookie has an expiry time (Expires or Max-Age was given);
\* a cookie without one is a session cookie.
Cookie(d, ho, p, n, v, e) ==
    [domain |-> d, hostOnly |-> ho, path |-> p, name |-> n, value |-> v, expired |-> e,
     persistent |-> TRUE]

\* A Set-Cookie header value as received.
\*   kind "cookie":    parses as a cookie
\*   kind "malformed": visible ASCII that cookie::Cookie::parse rejects
\*   kind "opaque":    bytes that HeaderValue::to_str rejects
SetCookie(n, v, hasD, d, hasP, p, e) ==
    [kind |-> "cookie", name |-> n, value |-> v, hasDomain |-> hasD, domain |-> d,
     hasPath |-> hasP, path |-> p, expired |-> e, persistent |-> TRUE]
Malformed == [kind |-> "malformed", name |-> "", value |-> "", hasDomain |-> FALSE,
              domain |-> <<>>, hasPath |-> FALSE, path |-> <<>>, expired |-> FALSE,
              persistent |-> FALSE]
Opaque == [kind |-> "opaque", name |-> "", value |-> "", hasDomain |-> FALSE,
           domain |-> <<>>, hasPath |-> FALSE, path |-> <<>>, expired |-> FALSE,
           persistent |-> FALSE]

\* the same header without Expires and Max-Age: it sets a session cookie
SessionCookie(h) == [h EXCEPT !.persistent = FALSE]

SameKey(c, d, p, n) == c.domain = d /\ c.path = p /\ c.name = n

\* RFC 6265 5.1.4: the URL path up to, not including, its right-most "/"
DefaultPath(urlPath) ==
    IF urlPath = <<>> THEN Root ELSE SubSeq(urlPath, 1, Len(urlPath) - 1)

\* CookieStore::get: the unexpired cookie stored under exactly (domain, path, name)
Get(j, d, p, n) == {c \in j : SameKey(c, d, p, n) /\ ~c.expired}

\* the insertion with a slip: the cookie already stored under the key stays
insert_raw_keep(j, h, url) ==
    LET d  == IF h.hasDomain THEN h.domain ELSE url.host
        p  == IF h.hasPath THEN h.path ELSE DefaultPath(url.path)
    IN  IF (h.hasDomain /\ ~IsPrefix(h.domain, url.host)) \/ h.expired
          THEN j
        ELSE j \cup {[Cookie(d, ~h.hasDomain, p, h.name, h.value, FALSE)
                         EXCEPT !.persistent = h.persistent]}

\* CookieStore::insert_raw(raw_cookie, url) as update_set_cookies calls it; a
\* rejected cookie leaves the jar as it is (the error is only logged)
insert_raw(j, h, url) ==
    LET d  == IF h.hasDomain THEN h.domain ELSE url.host
        p  == IF h.hasPath THEN h.path ELSE DefaultPath(url.path)
        old == {c \in j : SameKey(c, d, p, h.name)}
    IN  IF h.hasDomain /\ ~IsPrefix(h.domain, url.host)
          THEN j                                       \* CookieError::DomainMismatch
        ELSE IF h.expired
          THEN (j \ old) \cup {[c EXCEPT !.expired = TRUE] : c \in old}
                                                       \* ExpiredExisting, or CookieError::Expired
        ELSE (j \ old) \cup {[Cookie(d, ~h.hasDomain, p, h.name, h.value, FALSE)
                                 EXCEPT !.persistent = h.persistent]}

RECURSIVE InsertAll(_, _, _)
InsertAll(j, hs, url) ==
    IF hs = <<>> THEN j
    ELSE InsertAll(IF Head(hs).kind = "cookie" THEN insert_raw(j, Head(hs), url) ELSE j,
                   Tail(hs), url)

\* the ingestion with a slip: only the first Set-Cookie header is taken
update_set_cookies_first(j, hs, url) ==
    IF \E i \in 1..Len(hs) : hs[i].kind = "opaque"
      THEN [panic |-> TRUE, jar |-> j]
      ELSE [panic |-> FALSE, jar |-> InsertAll(j, IF hs = <<>> THEN hs ELSE <<Head(hs)>>, url)]

\* the ingestion with a slip: the jar is emptied before the headers are stored
update_set_cookies_fresh(j, hs, url) ==
    IF \E i \in 1..Len(hs) : hs[i].kind = "opaque"
      THEN [panic |-> TRUE, jar |-> j]
      ELSE [panic |-> FALSE, jar |-> InsertAll({}, hs, url)]

\* update_set_cookies(cookie_store, resp): the header values are collected with
\* to_str().unwrap() before the first insertion, so one opaque value panics
\* with the jar untouched; a malformed or rejected one is skipped.
update_set_cookies(j, hs, url) ==
    IF \E i \in 1..Len(hs) : hs[i].kind = "opaque"
      THEN [panic |-> TRUE, jar |-> j]
      ELSE [panic |-> FALSE, jar |-> InsertAll(j, hs, url)]

\* CookieStore::get_request_cookies(url): unexpired, domain-match, path-match
Applicable(j, url) ==
    {c \in j : /\ ~c.expired
               /\ IF c.hostOnly THEN c.domain = url.host ELSE IsPrefix(c.domain, url.host)
               /\ IsPrefix(c.path, url.path)}

\* the predicate with a slip: one marker is enough
has_logged_any(s, j) ==
    IF s = "youdao"
      THEN \/ Get(j, <<"com", "youdao">>, Root, "OUTFOX_SEARCH_USER_ID") # {}
           \/ Get(j, <<"com", "youdao">>, Root, "DICT_PERS") # {}
      ELSE Get(j, <<"com", "maimemo", "www">>, Root, "userToken") # {}

\* YoudaoClient::has_logged / MaimemoClient::has_logged
has_logged(s, j) ==
    IF s = "youdao"
      THEN /\ Get(j, <<"com", "youdao">>, Root, "OUTFOX_SEARCH_USER_ID") # {}
           /\ Get(j, <<"com", "youdao">>, Root, "DICT_PERS") # {}
      ELSE Get(j, <<"com", "maimemo", "www">>, Root, "userToken") # {}

----------------------------------------------------------------------------
(* The request templates (config.rs RequestConfig, AppConfig.requests) *)

\* one entry of a template's header map
Header(k, v) == [key |-> k, val |-> v]

\* the browser-like headers every declared header map carries
BrowserHeaders == {Header("User-Agent", "Mozilla"), Header("Referer", "site")}

\* headers: Some(map) as a singleton, None as {}; ct is the value of the
\* Content-Type entry ("absent": the map has none)
Template(h, p, m, hasH, ct) ==
    [host |-> h, path |-> p, method |-> m,
     headers |-> IF hasH
                   THEN {BrowserHeaders \cup (IF ct = "absent" THEN {} ELSE {Header("Content-Type", ct)})}
                   ELSE {}]

\* entries the HTTP library rejects: a name with a space, a value with a line break
BadHeaders == {Header("Bad Name", "x"), Header("X-Trace", "line\nbreak")}

\* the template with more entries in its header map
WithHeaders(t, hs) == [t EXCEPT !.headers = {H \cup hs : H \in @}]

YoudaoHost == <<"com", "youdao", "dict">>
MaimemoHost == <<"com", "maimemo", "www">>

\* a configuration that declares every template its client uses
FullConfig(s) ==
    IF s = "youdao"
      THEN ("fetch-cookie-outfox-search-user-id" :> Template(YoudaoHost, Root, "GET", TRUE, "absent"))
        @@ ("login" :> Template(YoudaoHost, <<"login", "acc", "login">>, "POST", TRUE, "form"))
        @@ ("get-words" :> Template(YoudaoHost, <<"wordbook", "words">>, "GET", TRUE, "absent"))
      ELSE ("login" :> Template(MaimemoHost, <<"auth", "login">>, "POST", TRUE, "form"))
        @@ ("notepad-search" :> Template(MaimemoHost, <<"api", "search">>, "POST", TRUE, "json"))
        @@ ("notepad-detail" :> Template(MaimemoHost, <<"notepad", "detail">>, "GET", TRUE, "absent"))
        @@ ("service-captcha" :> Template(MaimemoHost, <<"service", "captcha">>, "GET", TRUE, "absent"))
        @@ ("notepad-save" :> Template(MaimemoHost, <<"notepad", "save">>, "POST", TRUE, "form"))

\* a configuration with a template missing, one without headers, one with an
\* empty method, one with a text/plain content type, and login templates with
\* entries the HTTP library rejects
PartialConfig(s) ==
    IF s = "youdao"
      THEN ("login" :> WithHeaders(Template(YoudaoHost, <<"login", "acc", "login">>, "POST", TRUE, "form"),
                                   BadHeaders))
        @@ ("get-words" :> Template(YoudaoHost, <<"wordbook", "words">>, "GET", FALSE, "absent"))
      ELSE ("login" :> WithHeaders(Template(MaimemoHost, <<"auth", "login">>, "POST", TRUE, "form\nbreak"),
                                   {Header("Bad Name", "x")}))
        @@ ("notepad-search" :> Template(MaimemoHost, <<"api", "search">>, "", TRUE, "json"))
        @@ ("notepad-detail" :> Template(MaimemoHost, <<"notepad", "detail">>, "GET", FALSE, "absent"))
        @@ ("service-captcha" :> Template(MaimemoHost, <<"service", "captcha">>, "GET", TRUE, "text"))

Configs(s) == {FullConfig(s), PartialConfig(s)}

\* every request name a caller may pass
ReqNames == {"fetch-cookie-outfox-search-user-id", "login", "get-words", "notepad-search",
             "notepad-detail", "service-captcha", "notepad-save", "no-such-request"}

\* the lookup with a slip: an unknown name falls back to some template
get_request_config_fallback(cfg, req_name) ==
    IF req_name \in DOMAIN cfg THEN {cfg[req_name]} ELSE {cfg[CHOOSE n \in DOMAIN cfg : TRUE]}

\* get_request_config(config, req_name): Some(template) as a singleton, None as {}
get_request_config(cfg, req_name) ==
    IF req_name \in DOMAIN cfg THEN {cfg[req_name]} ELSE {}

----------------------------------------------------------------------------
(* The dispatcher (client/mod.rs send_request) *)

Statuses == {200, 302, 404, 500}

NoBody == [kind |-> "empty", total |-> 0, n |-> 0]

\* what the transport hands back for one request: a failure to send, or a
\* response with a status, Set-Cookie headers and a body
Reply(tf, st, hs, b) == [transport |-> tf, status |-> st, setCookies |-> hs, body |-> b]

\* the outcome of one send_request call: Ok(resp) or Err(msg), the requests it
\* handed to the transport and the number of url_handler applications
Outcome(ok, err, st, hs, b, reqs, calls) ==
    [ok |-> ok, err |-> err, status |-> st, setCookies |-> hs, body |-> b,
     sent |-> reqs, urlCalls |-> calls, panic |-> FALSE]

Failure(err, st, reqs, calls) == Outcome(FALSE, err, st, <<>>, NoBody, reqs, calls)

\* RequestConfig::get_headers with a slip: a template without headers yields
\* an empty map
get_headers_default(t) == IF t.headers = {} THEN {{}} ELSE t.headers

\* RequestConfig::get_headers: Some(map) as a singleton, None as {}
get_headers(t) == t.headers

\* key.to_lowercase()
Lower(k) ==
    CASE k = "User-Agent" -> "user-agent"
      [] k = "Referer" -> "referer"
      [] k = "Content-Type" -> "content-type"
      [] k = "Bad Name" -> "bad name"
      [] k = "X-Trace" -> "x-trace"
      [] OTHER -> k

\* HeaderName::from_lowercase succeeds: no space in the name
HeaderNameOk(name) == name # "bad name"

\* HeaderValue::from_str succeeds: no control character in the value
HeaderValueOk(val) == val \notin {"line\nbreak", "form\nbreak"}

\* fill_headers with a slip: one invalid entry and no header is applied
fill_headers_abort(headers) ==
    IF \A h \in headers : HeaderNameOk(Lower(h.key)) /\ HeaderValueOk(h.val)
      THEN {<<Lower(h.key), h.val>> : h \in headers}
      ELSE {}

\* fill_headers(req_builder, headers): the name/value pairs put on the request;
\* an entry with an invalid name or value is skipped
fill_headers(headers) ==
    {<<Lower(h.key), h.val>> :
        h \in {x \in headers : HeaderNameOk(Lower(x.key)) /\ HeaderValueOk(x.val)}}

\* the content-type send_request looks up in the configured header map
\* (find with eq_ignore_ascii_case): Some(value) as a singleton, None as {}
content_type(headers) == {h.val : h \in {x \in headers : Lower(x.key) = "content-type"}}

\* content_type.contains(what) in fill_body
Contains(val, what) ==
    \/ what = "application/x-www-form-urlencoded" /\ val \in {"form", "form\nbreak"}
    \/ what = "application/json" /\ val = "json"

\* the suffixes url_handler appends that extend the URL's path (a notepad
\* id); a query string, a token or a timestamp leaves the path as it is
PathSuffixes == {"1"}

\* the URL url_handler returns, as far as cookie matching reads it
RewrittenUrl(t, tail) ==
    Url(t.host, IF tail \in PathSuffixes THEN Append(t.path, tail) ELSE t.path)

\* fill_request_cookies with a slip: every unexpired cookie of the jar is sent
fill_request_cookies_all(j, url) == {<<c.name, c.value>> : c \in {x \in j : ~x.expired}}

\* fill_request_cookies: the name=value pairs of the cookies applicable to the
\* rewritten URL; the empty set stands for "no Cookie header".  The header is
\* also left out when HeaderValue::from_str rejects the joined string.
fill_request_cookies(j, url) ==
    LET cookies == {<<c.name, c.value>> : c \in Applicable(j, url)}
    IN  IF \A p \in cookies : HeaderValueOk(p[1]) /\ HeaderValueOk(p[2]) THEN cookies ELSE {}

\* fill_body(req_builder, content_type, body): the encoding of the body, or
\* "todo" where the code stops at todo!()
fill_body(val) ==
    IF Contains(val, "application/x-www-form-urlencoded") THEN "form"
    ELSE IF Contains(val, "application/json") THEN "json"
    ELSE "todo"

\* the request as built: template, rewritten URL, Cookie header, body
Request(req_name, t, query, tail, j, hasBody) ==
    [name |-> req_name, host |-> t.host, path |-> t.path, query |-> query, tail |-> tail,
     method |-> t.method, headers |-> fill_headers(CHOOSE x \in get_headers(t) : TRUE),
     cookie |-> fill_request_cookies(j, RewrittenUrl(t, tail)),
     hasBody |-> hasBody,
     encoding |-> IF hasBody
                    THEN fill_body(CHOOSE v \in content_type(CHOOSE x \in get_headers(t) : TRUE) : TRUE)
                    ELSE "none"]

\* the classification with a slip: every 2xx status and nothing else passes
status_is_2xx(st) == st \in 200..299

\* the statuses send_request hands back as Ok(resp)
status_ok(st) == st = 200 \/ st = 302

\* Client::builder() with its defaults: redirects are followed
build_general_client_default == [cookie_store |-> FALSE, redirect |-> "limited"]

\* build_general_client(): cookie_store(false), redirect Policy::none()
build_general_client == [cookie_store |-> FALSE, redirect |-> "none"]

\* req_builder.send(): the requests the transport puts on the wire for one
\* built request and the response it hands back.  A transport with a redirect
\* policy follows a 302 to its Location; one with its own cookie store adds
\* the cookies it kept.
Wire(client, req, reply) ==
    LET out == IF client.cookie_store
                 THEN [req EXCEPT !.cookie = @ \cup {<<"transport", "kept">>}]
                 ELSE req
    IN  IF client.redirect # "none" /\ ~reply.transport /\ reply.status = 302
          THEN [sent |-> <<out, [out EXCEPT !.name = "Location"]>>,
                reply |-> [reply EXCEPT !.status = 200]]
          ELSE [sent |-> <<out>>, reply |-> reply]

\* send_request(config, client, cookie_store, req_name, url_handler, body).
\* query and tail are what url_handler appends to the template's URL
\* (a limit/offset pair, a token or id); reply is the transport's answer.
send_request(cfg, j, req_name, query, tail, hasBody, reply) ==
    LET found == get_request_config(cfg, req_name)
        t == CHOOSE x \in found : TRUE
    IN  IF found = {}
          THEN Failure("not found req config", 0, <<>>, 0)
        ELSE IF t.method = ""
          THEN Failure("invalid method", 0, <<>>, 1)
        ELSE IF get_headers(t) = {}
          THEN Failure("not found any headers", 0, <<>>, 1)
        ELSE IF hasBody /\ content_type(CHOOSE x \in get_headers(t) : TRUE) = {}
          THEN Failure("not found content-type", 0, <<>>, 1)
        ELSE IF hasBody /\ \A v \in content_type(CHOOSE x \in get_headers(t) : TRUE) :
                              fill_body(v) = "todo"
          THEN [Failure("panic", 0, <<>>, 1) EXCEPT !.panic = TRUE]   \* fill_body: todo!()
        ELSE LET Executed(w) ==
                     IF w.reply.transport
                       THEN Failure("transport", 0, w.sent, 1)
                     ELSE IF status_ok(w.reply.status)
                       THEN Outcome(TRUE, "", w.reply.status, w.reply.setCookies, w.reply.body, w.sent, 1)
                     ELSE Failure("Response code error", w.reply.status, w.sent, 1)
             IN  Executed(Wire(build_general_client,
                               Request(req_name, t, query, tail, j, hasBody), reply))

----------------------------------------------------------------------------
(* Set-Cookie headers a server may answer with *)

EvilDomain == <<"com", "evil">>

\* every shape of header the ingestion distinguishes: the session markers as
\* the service sets them, a changed value, an expiring header, a host-only
\* cookie, a cookie without Path, a foreign Domain, a session cookie, a
\* malformed header, an opaque header
JarHeaders(s) ==
    IF s = "youdao"
      THEN { SetCookie("OUTFOX_SEARCH_USER_ID", "v1", TRUE, ServiceDomain(s), TRUE, Root, FALSE),
             SetCookie("DICT_PERS", "v1", TRUE, ServiceDomain(s), TRUE, Root, FALSE),
             SetCookie("DICT_PERS", "v2", TRUE, ServiceDomain(s), TRUE, Root, FALSE),
             SetCookie("DICT_PERS", "", TRUE, ServiceDomain(s), TRUE, Root, TRUE),
             SetCookie("DICT_PERS", "v1", FALSE, <<>>, TRUE, Root, FALSE),
             SetCookie("OUTFOX_SEARCH_USER_ID", "v1", TRUE, ServiceDomain(s), FALSE, <<>>, FALSE),
             SetCookie("DICT_PERS", "v1", TRUE, EvilDomain, TRUE, Root, FALSE),
             SessionCookie(SetCookie("DICT_PERS", "v3", TRUE, ServiceDomain(s), TRUE, Root, FALSE)),
             Malformed, Opaque }
      ELSE { SetCookie("userToken", "v1", FALSE, <<>>, TRUE, Root, FALSE),
             SetCookie("userToken", "v2", TRUE, ServiceDomain(s), TRUE, Root, FALSE),
             SetCookie("userToken", "", FALSE, <<>>, TRUE, Root, TRUE),
             SetCookie("userToken", "v1", TRUE, <<"com", "maimemo">>, TRUE, Root, FALSE),
             SetCookie("userToken", "v1", FALSE, <<>>, FALSE, <<>>, FALSE),
             SessionCookie(SetCookie("userToken", "v3", FALSE, <<>>, TRUE, Root, FALSE)),
             Malformed, Opaque }

----------------------------------------------------------------------------
(* State shared by the specifications *)

NoResp == [url |-> Url(<<>>, <<>>), setCookies |-> <<>>]

\* Result<_, String> of an operation: Ok(val) or Err(err); status is the
\* HTTP status an error message carries (0: none)
Ok(val) == [ok |-> TRUE, err |-> "", status |-> 0, val |-> val]
Err(msg, st) == [ok |-> FALSE, err |-> msg, status |-> st, val |-> <<>>]

\* a file: whether it exists, and its content as a sequence of units
File(exists, bytes) == [exists |-> exists, bytes |-> bytes]

\* no save has been made
NoSave == [valid |-> FALSE, clean |-> FALSE, jar |-> {}]

\* the cookie file is not part of the other specifications: no cookie_path,
\* the client lives throughout
NoFiles ==
    /\ cookie_path = FALSE
    /\ file = File(FALSE, <<>>)
    /\ alive = TRUE
    /\ saved = NoSave

\* filter_offset has not been called
NotFiltered == [done |-> FALSE, panic |-> FALSE, spins |-> FALSE, words |-> <<>>]

\* Option<&str> of a date argument: absent, a date, or text that is no date
NoDate == [kind |-> "none", day |-> 0]
Day(d) == [kind |-> "date", day |-> d]
BadDate == [kind |-> "bad", day |-> 0]

\* list has not been called
NotListed == [done |-> FALSE, sorted |-> <<>>, panic |-> FALSE, spins |-> FALSE, words |-> <<>>]

\* filter_offset and list are not part of the specification
NoOffset ==
    /\ offWords = <<>>
    /\ offArg = 0
    /\ filtered = NotFiltered
    /\ start_date = NoDate
    /\ end_date = NoDate
    /\ listed = NotListed

\* no persist has returned
NotPersisted == [valid |-> FALSE, words |-> <<>>]

\* from_file has not been called
NotLoaded == [done |-> FALSE, ok |-> FALSE, panic |-> FALSE, words |-> <<>>]

\* the word store is not part of the specification
NoStore ==
    /\ store = <<>>
    /\ words_file = File(FALSE, <<>>)
    /\ persisted = NotPersisted
    /\ loaded = NotLoaded

\* between two calls: nothing is being observed
Idle ==
    /\ op = "idle"
    /\ arg = ""
    /\ result = Ok(<<>>)
    /\ sent = <<>>
    /\ served = <<>>
    /\ resp = NoResp
    /\ urlCalls = 0

\* Notepad: notepad_id and contents: Option<String>, the content as the
\* sequence of its pieces (has = FALSE: None)
Notepad(id, has, contents) == [id |-> id, has |-> has, contents |-> contents]

NoNotepad == Notepad("", FALSE, <<>>)

\* nothing has happened in the workflow
NoCount == [attempts |-> 0, captcha |-> 0, save |-> 0, failed |-> 0, yes |-> 0]

\* the upload workflow is not part of the client specifications
\* upload_notepad has not been called
NoArgs == [is_appending |-> FALSE, timestamp |-> FALSE, lines |-> <<>>]

NoUpload ==
    /\ notepads = <<>>
    /\ is_updated = FALSE
    /\ stdin = [tty |-> FALSE, eof |-> FALSE]
    /\ pc = "off"
    /\ new_notepad = NoNotepad
    /\ upId = ""
    /\ upArgs = NoArgs
    /\ captcha = ""
    /\ log = <<>>
    /\ count = NoCount
    /\ upResult = Ok(<<>>)
    /\ dictionary = <<>>
    /\ before = [notepads |-> <<>>, is_updated |-> FALSE, dictionary |-> <<>>]

\* the caller has taken the result of the last call
Return ==
    /\ op # "idle"
    /\ op' = "idle"
    /\ arg' = ""
    /\ result' = Ok(<<>>)
    /\ sent' = <<>>
    /\ served' = <<>>
    /\ resp' = NoResp
    /\ urlCalls' = 0
    /\ UNCHANGED <<svc, config, verbose, jar, crashed>>
    /\ UNCHANGED uploadVars
    /\ UNCHANGED fileVars
    /\ UNCHANGED offsetVars
    /\ UNCHANGED storeVars

----------------------------------------------------------------------------
(* SpecJar: a client's jar under update_set_cookies *)

InitJar ==
    /\ svc \in Services
    /\ config = FullConfig(svc)
    /\ verbose = FALSE
    /\ jar = {}
    /\ crashed = FALSE
    /\ Idle
    /\ NoUpload
    /\ NoFiles
    /\ NoOffset
    /\ NoStore

\* update_set_cookies(&mut cookie_store, &resp) on the response to a request
\* made from template req_name, carrying the Set-Cookie headers hs
UpdateSetCookies(req_name, hs) ==
    LET t == config[req_name]
        u == update_set_cookies(jar, hs, Url(t.host, t.path))
    IN  /\ op = "idle"
        /\ ~crashed
        /\ jar' = u.jar
        /\ crashed' = u.panic
        /\ op' = "update_set_cookies"
        /\ arg' = req_name
        /\ result' = IF u.panic THEN Err("panic", 0) ELSE Ok(<<>>)
        /\ sent' = <<>>
        /\ served' = <<>>
        /\ resp' = [url |-> Url(t.host, t.path), setCookies |-> hs]
        /\ urlCalls' = 0
        /\ UNCHANGED <<svc, config, verbose>>
        /\ UNCHANGED uploadVars
        /\ UNCHANGED fileVars
        /\ UNCHANGED offsetVars
        /\ UNCHANGED storeVars

NextJar ==
    \/ /\ op = "idle"
       /\ \E req_name \in DOMAIN config, hs \in SeqsUpTo(JarHeaders(svc), MaxSetCookies) :
             UpdateSetCookies(req_name, hs)
    \/ Return

SpecJar == InitJar /\ [][NextJar]_vars

----------------------------------------------------------------------------
(* Claims on SpecJar *)

\* header h of a response from url is stored under (service domain, "/", m)
SetsMarker(h, url, m) ==
    /\ h.kind = "cookie"
    /\ h.name = m
    /\ IF h.hasDomain
         THEN h.domain = ServiceDomain(svc) /\ IsPrefix(h.domain, url.host)
         ELSE url.host = ServiceDomain(svc)
    /\ IF h.hasPath THEN h.path = Root ELSE Len(url.path) <= 1

\* the response carries, for every marker, an unexpired header stored under the
\* marker's key that no later header of the response expires
CarriesLiveMarkers(r) ==
    \A m \in Markers(svc) :
        \E i \in 1..Len(r.setCookies) :
            /\ SetsMarker(r.setCookies[i], r.url, m)
            /\ ~r.setCookies[i].expired
            /\ \A k \in (i + 1)..Len(r.setCookies) :
                  ~(SetsMarker(r.setCookies[k], r.url, m) /\ r.setCookies[k].expired)

\* the response carries a cookie of every marker name
CarriesMarkerNames(r) ==
    \A m \in Markers(svc) :
        \E i \in 1..Len(r.setCookies) :
            r.setCookies[i].kind = "cookie" /\ r.setCookies[i].name = m

HeldForDomain(m) == \E c \in jar : c.domain = ServiceDomain(svc) /\ c.name = m

\* an unexpired cookie of name m is in the jar under (service domain, "/")
HeldLive(m) ==
    \E c \in jar : c.domain = ServiceDomain(svc) /\ c.path = Root /\ c.name = m /\ ~c.expired

\* C5 as stated: has_logged() is true iff every session-marker cookie is
\* present in the jar for the service's domain.
C5_AsStated ==
    has_logged(svc, jar) <=> \A m \in Markers(svc) : HeldForDomain(m)

\* C5 amended: has_logged() is true iff every session-marker cookie is present
\* and unexpired in the jar under the service's domain and the path "/"; a
\* Youdao jar holding only one of the two markers yields false.
C5_LoggedIffMarkers ==
    /\ has_logged(svc, jar) <=> \A m \in Markers(svc) : HeldLive(m)
    /\ (svc = "youdao" /\ \E m \in Markers(svc) : ~HeldForDomain(m)) => ~has_logged(svc, jar)

C5_Witness ==
    /\ svc = "youdao"
    /\ HeldLive("OUTFOX_SEARCH_USER_ID")
    /\ ~HeldForDomain("DICT_PERS")
    /\ ~has_logged(svc, jar)

\* the key a header of a response from url is stored under
StoreKey(h, url) ==
    <<IF h.hasDomain THEN h.domain ELSE url.host,
      IF h.hasPath THEN h.path ELSE DefaultPath(url.path),
      h.name>>

\* the header parses and the jar accepts it for the response's URL
Accepted(h, url) == h.kind = "cookie" /\ (h.hasDomain => IsPrefix(h.domain, url.host))

\* the cookies the jar holds under a key, expired ones included
StoredUnder(j, key) == {c \in j : SameKey(c, key[1], key[2], key[3])}

\* C12: the jar never holds two cookies under one (domain, path, name) key;
\* ingesting a header a second time leaves the jar as it was after the first
\* time; of two accepted headers for one key in a response the later one
\* decides: its value is the stored value, or, if it is an expiring header,
\* the key has no live cookie.
C12_OneCookiePerKey ==
    /\ \A c1 \in jar, c2 \in jar : SameKey(c1, c2.domain, c2.path, c2.name) => c1 = c2
    /\ op = "update_set_cookies" =>
       \A h \in JarHeaders(svc) \ {Opaque} :
          update_set_cookies(jar, <<h, h>>, resp.url).jar
             = update_set_cookies(jar, <<h>>, resp.url).jar
    /\ (/\ op = "update_set_cookies"
        /\ ~crashed
        /\ Len(resp.setCookies) = 2
        /\ Accepted(resp.setCookies[1], resp.url)
        /\ Accepted(resp.setCookies[2], resp.url)
        /\ StoreKey(resp.setCookies[1], resp.url) = StoreKey(resp.setCookies[2], resp.url))
       => LET h == resp.setCookies[2]
              held == StoredUnder(jar, StoreKey(h, resp.url))
          IN  /\ Cardinality(held) <= 1
              /\ IF h.expired THEN \A c \in held : c.expired
                 ELSE \E c \in held : c.value = h.value /\ ~c.expired

C12_Witness ==
    /\ op = "update_set_cookies"
    /\ ~crashed
    /\ Len(resp.setCookies) = 2
    /\ Accepted(resp.setCookies[1], resp.url)
    /\ Accepted(resp.setCookies[2], resp.url)
    /\ StoreKey(resp.setCookies[1], resp.url) = StoreKey(resp.setCookies[2], resp.url)
    /\ resp.setCookies[1].value = "v1"
    /\ resp.setCookies[2].value = "v2"
    /\ \E c \in jar : c.value = "v2"
    /\ Cardinality(jar) = 1

\* header i of response r is the last one of r for its key
LastForKey(r, i) ==
    \A k \in (i + 1)..Len(r.setCookies) :
        ~(Accepted(r.setCookies[k], r.url)
          /\ StoreKey(r.setCookies[k], r.url) = StoreKey(r.setCookies[i], r.url))

\* C13: update_set_cookies processes every Set-Cookie header of the response:
\* the call never aborts, a header that cannot be parsed or stored is skipped,
\* and every well-formed cookie before and after it is in the jar afterwards
\* (as its key's last header sets it).
C13_SkipsBadHeaders ==
    op = "update_set_cookies" =>
        /\ ~crashed
        /\ \A i \in 1..Len(resp.setCookies) :
              LET h == resp.setCookies[i]
              IN  (Accepted(h, resp.url) /\ ~h.expired /\ LastForKey(resp, i)) =>
                     \E c \in StoredUnder(jar, StoreKey(h, resp.url)) :
                        c.value = h.value /\ ~c.expired

----------------------------------------------------------------------------
(* The clients (client/youdao_client.rs, client/maimemo_client.rs) *)

\* what one call of a client operation did: its result, the jar it leaves, the
\* requests it dispatched with the transport's answers, the last response it
\* was handed, the url_handler applications, and whether it panicked
Eff(res, j, reqs, srv, r, calls, pan) ==
    [result |-> res, jar |-> j, sent |-> reqs, served |-> srv, resp |-> r,
     urlCalls |-> calls, panic |-> pan]

\* the transport's answer to the request of outcome o, if one was dispatched
Answer(o, reply) ==
    IF o.sent = <<>> THEN <<>>
    ELSE <<[transport |-> reply.transport, status |-> reply.status,
            setCookies |-> reply.setCookies, body |-> reply.body]>>

\* the reqwest::Response of a successful outcome: resp.url() and its headers
RespOf(cfg, req_name, o) ==
    [url |-> Url(o.sent[1].host, o.sent[1].path), setCookies |-> o.setCookies]

\* a send_request that did not return Ok(resp), seen from the calling operation
Failed(o, reply, j) ==
    Eff(Err(o.err, o.status), j, o.sent, Answer(o, reply), NoResp, o.urlCalls, o.panic)

\* resp.text() / resp.json() / resp.bytes() could not read the body
Unreadable(b) == b.kind = "unreadable"

\* YoudaoClient::prapre_login
prapre_login(cfg, j, reply) ==
    LET req_name == "fetch-cookie-outfox-search-user-id"
        o == send_request(cfg, j, req_name, <<>>, "", FALSE, reply)
    IN  IF ~o.ok THEN Failed(o, reply, j)
        ELSE LET r == RespOf(cfg, req_name, o)
                 u == update_set_cookies(j, o.setCookies, r.url)
             IN  Eff(IF u.panic THEN Err("panic", 0) ELSE Ok(<<>>),
                     u.jar, o.sent, Answer(o, reply), r, o.urlCalls, u.panic)

\* login with a slip: the Cookie header of the login request is built from the
\* jar as it was before the priming request
login_youdao_stale(cfg, vb, j, reply1, reply2) ==
    LET p == prapre_login(cfg, j, reply1)
    IN  IF ~p.result.ok THEN p
        ELSE
    LET o == send_request(cfg, j, "login", <<>>, "", TRUE, reply2)
        reqs == p.sent \o o.sent
        srv == p.served \o Answer(o, reply2)
        calls == p.urlCalls + o.urlCalls
    IN  IF ~o.ok THEN Eff(Err(o.err, o.status), p.jar, reqs, srv, p.resp, calls, o.panic)
        ELSE
    LET r == RespOf(cfg, "login", o)
        u == update_set_cookies(p.jar, o.setCookies, r.url)
        res == IF u.panic THEN Err("panic", 0)
               ELSE IF o.setCookies = <<>> THEN Err("not found any set-cookie in login resp", 0)
               ELSE IF ~has_logged("youdao", u.jar) THEN Err("login failed. not found login cookies", 0)
               ELSE Ok(<<>>)
    IN  Eff(res, u.jar, reqs, srv, r, calls, u.panic)

\* login with a slip: has_logged is evaluated before the login response's
\* cookies are ingested
login_youdao_unordered(cfg, vb, j, reply1, reply2) ==
    LET p == prapre_login(cfg, j, reply1)
    IN  IF ~p.result.ok THEN p
        ELSE
    LET o == send_request(cfg, p.jar, "login", <<>>, "", TRUE, reply2)
        reqs == p.sent \o o.sent
        srv == p.served \o Answer(o, reply2)
        calls == p.urlCalls + o.urlCalls
    IN  IF ~o.ok THEN Eff(Err(o.err, o.status), p.jar, reqs, srv, p.resp, calls, o.panic)
        ELSE
    LET r == RespOf(cfg, "login", o)
        u == update_set_cookies(p.jar, o.setCookies, r.url)
        res == IF u.panic THEN Err("panic", 0)
               ELSE IF o.setCookies = <<>> THEN Err("not found any set-cookie in login resp", 0)
               ELSE IF ~has_logged("youdao", p.jar) THEN Err("login failed. not found login cookies", 0)
               ELSE Ok(<<>>)
    IN  Eff(res, u.jar, reqs, srv, r, calls, u.panic)

\* login with a slip: the jar is looked at first, so a response without
\* Set-Cookie passes when the jar already holds the markers
login_youdao_jar_first(cfg, vb, j, reply1, reply2) ==
    LET Checked(p, o, r, u) ==
            Eff(IF u.panic THEN Err("panic", 0)
                ELSE IF has_logged("youdao", u.jar) THEN Ok(<<>>)
                ELSE IF o.setCookies = <<>>
                  THEN IF Unreadable(o.body) THEN Err("reqwest::Error", 0)
                       ELSE Err("Frequent login may have been added to youdao blacklist, not found any set-cookie in login resp", 0)
                ELSE IF vb /\ Unreadable(o.body) THEN Err("reqwest::Error", 0)
                ELSE Err("login failed. not found login cookies", 0),
                u.jar, p.sent \o o.sent, p.served \o Answer(o, reply2), r,
                p.urlCalls + o.urlCalls, u.panic)
        Ingested(p, o, r) == Checked(p, o, r, update_set_cookies(p.jar, o.setCookies, r.url))
        Requested(p, o) ==
            IF ~o.ok
              THEN Eff(Err(o.err, o.status), p.jar, p.sent \o o.sent,
                       p.served \o Answer(o, reply2), p.resp, p.urlCalls + o.urlCalls, o.panic)
            ELSE Ingested(p, o, RespOf(cfg, "login", o))
        Prepared(p) ==
            IF ~p.result.ok THEN p
            ELSE Requested(p, send_request(cfg, p.jar, "login", <<>>, "", TRUE, reply2))
    IN  Prepared(prapre_login(cfg, j, reply1))

\* YoudaoClient::login; vb: the logger is enabled, so error!() evaluates its
\* arguments, among them resp.text().await?
login_youdao(cfg, vb, j, reply1, reply2) ==
    LET \* p: prapre_login's effect; o: the login request's outcome; r: its
        \* response; u: the jar after update_set_cookies
        Checked(p, o, r, u) ==
            Eff(IF u.panic THEN Err("panic", 0)
                ELSE IF o.setCookies = <<>>
                  THEN IF Unreadable(o.body) THEN Err("reqwest::Error", 0)
                       ELSE Err("Frequent login may have been added to youdao blacklist, not found any set-cookie in login resp", 0)
                ELSE IF ~has_logged("youdao", u.jar)
                  THEN IF vb /\ Unreadable(o.body) THEN Err("reqwest::Error", 0)
                       ELSE Err("login failed. not found login cookies", 0)
                ELSE Ok(<<>>),
                u.jar, p.sent \o o.sent, p.served \o Answer(o, reply2), r,
                p.urlCalls + o.urlCalls, u.panic)
        Ingested(p, o, r) == Checked(p, o, r, update_set_cookies(p.jar, o.setCookies, r.url))
        Requested(p, o) ==
            IF ~o.ok
              THEN Eff(Err(o.err, o.status), p.jar, p.sent \o o.sent,
                       p.served \o Answer(o, reply2), p.resp, p.urlCalls + o.urlCalls, o.panic)
            ELSE Ingested(p, o, RespOf(cfg, "login", o))
        Prepared(p) ==
            IF ~p.result.ok THEN p
            ELSE Requested(p, send_request(cfg, p.jar, "login", <<>>, "", TRUE, reply2))
    IN  Prepared(prapre_login(cfg, j, reply1))

\* login with a slip: Ok without looking at the jar
login_maimemo_unchecked(cfg, j, reply) ==
    LET o == send_request(cfg, j, "login", <<>>, "", TRUE, reply)
    IN  IF ~o.ok THEN Failed(o, reply, j)
        ELSE
    LET r == RespOf(cfg, "login", o)
        u == update_set_cookies(j, o.setCookies, r.url)
    IN  Eff(IF u.panic THEN Err("panic", 0) ELSE Ok(<<>>),
            u.jar, o.sent, Answer(o, reply), r, o.urlCalls, u.panic)

\* MaimemoClient::login
login_maimemo(cfg, j, reply) ==
    LET o == send_request(cfg, j, "login", <<>>, "", TRUE, reply)
    IN  IF ~o.ok THEN Failed(o, reply, j)
        ELSE
    LET r == RespOf(cfg, "login", o)
        u == update_set_cookies(j, o.setCookies, r.url)
        res == IF u.panic THEN Err("panic", 0)
               ELSE IF ~has_logged("maimemo", u.jar)
                 THEN Err("login failed. not found cookie store", 0)
               ELSE Ok(<<>>)
    IN  Eff(res, u.jar, o.sent, Answer(o, reply), r, o.urlCalls, u.panic)

NotLoggedIn(j) == Eff(Err("not logged in", 0), j, <<>>, <<>>, NoResp, 0, FALSE)

\* the page size of get_words and the probe of get_words_total
PageLimit == 1000
ProbeLimit == 1

\* the page count with a slip: the quotient is truncated
Floor(total, limit) == total \div limit

\* (total as f64 / limit as f64).ceil() as usize, exact for the totals modelled
Ceil(total, limit) == (total + limit - 1) \div limit

\* Vec<WordItem> as the runs of items the pages contributed, in order: a page
\* of n > 0 items fetched at some offset is one run; pushing the items of an
\* empty page adds nothing
PushItems(words, offset, n) ==
    IF n = 0 THEN words ELSE Append(words, [offset |-> offset, n |-> n])

RECURSIVE WordCount(_)
WordCount(words) == IF words = <<>> THEN 0 ELSE Head(words).n + WordCount(Tail(words))

\* the JSON body of a word page: ResponseResult<Page<WordItem>>
PageBody(total, n) == [kind |-> "page", total |-> total, n |-> n]
Body(kind) == [kind |-> kind, total |-> 0, n |-> 0]

\* YoudaoClient::get_words_total
get_words_total(cfg, j, reply) ==
    IF ~has_logged("youdao", j) THEN NotLoggedIn(j)
    ELSE
    LET o == send_request(cfg, j, "get-words", <<ProbeLimit, 0>>, "", FALSE, reply)
    IN  IF ~o.ok THEN Failed(o, reply, j)
        ELSE Eff(IF o.body.kind = "page" THEN Ok(<<o.body.total>>) ELSE Err("reqwest::Error", 0),
                 j, o.sent, Answer(o, reply), RespOf(cfg, "get-words", o), o.urlCalls, FALSE)

\* the loop `for number in 0..numbers` of get_words from iteration number on;
\* e is what the call did so far, e.result.val the words pushed so far
RECURSIVE get_words_pages(_, _, _, _, _, _)
get_words_pages(cfg, j, number, numbers, replies, e) ==
    IF number >= numbers THEN e
    ELSE LET offset == PageLimit * number
             reply == replies[number + 1]
             o == send_request(cfg, j, "get-words", <<PageLimit, offset>>, "", FALSE, reply)
             reqs == e.sent \o o.sent
             srv == e.served \o Answer(o, reply)
             calls == e.urlCalls + o.urlCalls
         IN  IF ~o.ok
               THEN Eff(Err(o.err, o.status), j, reqs, srv, e.resp, calls, o.panic)
             ELSE IF o.body.kind # "page"
               THEN Eff(Err("reqwest::Error", 0), j, reqs, srv, RespOf(cfg, "get-words", o), calls, FALSE)
             ELSE get_words_pages(cfg, j, number + 1, numbers, replies,
                                  Eff(Ok(PushItems(e.result.val, offset, o.body.n)),
                                      j, reqs, srv, RespOf(cfg, "get-words", o), calls, FALSE))

\* the final check with a slip: the words are returned whatever their number
get_words_check_none(words, total) == Ok(words)

\* the final check of get_words: words.len() == total
get_words_check(words, total) ==
    IF WordCount(words) = total THEN Ok(words)
    ELSE Err("The number of words obtained is not the same as the total number!", 0)

\* YoudaoClient::get_words; probe answers the total-count request, replies[k]
\* the k-th page request
get_words(cfg, j, probe, replies) ==
    IF ~has_logged("youdao", j) THEN NotLoggedIn(j)
    ELSE
    LET t == get_words_total(cfg, j, probe)
    IN  IF ~t.result.ok THEN t
        ELSE
    LET total == t.result.val[1]
        numbers == Ceil(total, PageLimit)
        e == get_words_pages(cfg, j, 0, numbers, replies, [t EXCEPT !.result = Ok(<<>>)])
    IN  IF ~e.result.ok THEN e
        ELSE [e EXCEPT !.result = get_words_check(e.result.val, total)]

\* MaimemoClient::get_notepad_list; the url_handler appends the user token
get_notepad_list(cfg, j, reply) ==
    IF ~has_logged("maimemo", j) THEN NotLoggedIn(j)
    ELSE
    LET token == (CHOOSE c \in Get(j, <<"com", "maimemo", "www">>, Root, "userToken") : TRUE).value
        o == send_request(cfg, j, "notepad-search", <<>>, token, TRUE, reply)
    IN  IF ~o.ok THEN Failed(o, reply, j)
        ELSE Eff(IF o.body.kind = "list" THEN Ok(<<o.body.n>>)
                 ELSE IF o.body.kind = "nolist" THEN Err("get notepad failed", 0)
                 ELSE Err("reqwest::Error", 0),
                 j, o.sent, Answer(o, reply), RespOf(cfg, "notepad-search", o), o.urlCalls, FALSE)

\* get_notepad_contents with a slip: the response's cookies are ingested
get_notepad_contents_ingesting(cfg, j, notepad_id, reply) ==
    IF ~has_logged("maimemo", j) THEN NotLoggedIn(j)
    ELSE
    LET o == send_request(cfg, j, "notepad-detail", <<>>, notepad_id, FALSE, reply)
        r == RespOf(cfg, "notepad-detail", o)
    IN  IF ~o.ok THEN Failed(o, reply, j)
        ELSE Eff(IF o.body.kind = "html" THEN Ok(<<"contents">>)
                 ELSE Err("not found element #content in html", 0),
                 InsertAll(j, o.setCookies, r.url), o.sent, Answer(o, reply), r, o.urlCalls, FALSE)

\* MaimemoClient::get_notepad_contents with parse_notepad_text
get_notepad_contents(cfg, j, notepad_id, reply) ==
    IF ~has_logged("maimemo", j) THEN NotLoggedIn(j)
    ELSE
    LET o == send_request(cfg, j, "notepad-detail", <<>>, notepad_id, FALSE, reply)
    IN  IF ~o.ok THEN Failed(o, reply, j)
        ELSE Eff(IF Unreadable(o.body) THEN Err("reqwest::Error", 0)
                 ELSE IF o.body.kind = "html" THEN Ok(<<"contents">>)
                 ELSE Err("not found element #content in html", 0),
                 j, o.sent, Answer(o, reply), RespOf(cfg, "notepad-detail", o), o.urlCalls, FALSE)

\* refresh_captcha with a slip: the login check is missing
refresh_captcha_unchecked(cfg, j, reply) ==
    LET o == send_request(cfg, j, "service-captcha", <<>>, "timestamp", FALSE, reply)
    IN  IF ~o.ok THEN Failed(o, reply, j)
        ELSE Eff(IF Unreadable(o.body) THEN Err("reqwest::Error", 0) ELSE Ok(<<o.body.kind>>),
                 j, o.sent, Answer(o, reply), RespOf(cfg, "service-captcha", o), o.urlCalls, FALSE)

\* MaimemoClient::refresh_captcha: the bytes of the body, whatever they are
refresh_captcha(cfg, j, reply) ==
    IF ~has_logged("maimemo", j) THEN NotLoggedIn(j)
    ELSE
    LET o == send_request(cfg, j, "service-captcha", <<>>, "timestamp", FALSE, reply)
    IN  IF ~o.ok THEN Failed(o, reply, j)
        ELSE Eff(IF Unreadable(o.body) THEN Err("reqwest::Error", 0) ELSE Ok(<<o.body.kind>>),
                 j, o.sent, Answer(o, reply), RespOf(cfg, "service-captcha", o), o.urlCalls, FALSE)

\* MaimemoClient::save_notepad(notepad, captcha); hasContents: notepad.contents
\* is Some
save_notepad(cfg, j, hasContents, reply) ==
    IF ~has_logged("maimemo", j) THEN NotLoggedIn(j)
    ELSE IF ~hasContents
      THEN Eff(Err("notepad contents is none", 0), j, <<>>, <<>>, NoResp, 0, FALSE)
    ELSE
    LET o == send_request(cfg, j, "notepad-save", <<>>, "", TRUE, reply)
    IN  IF ~o.ok THEN Failed(o, reply, j)
        ELSE Eff(IF o.body.kind = "saved" THEN Ok(<<>>)
                 ELSE IF o.body.kind = "rejected" THEN Err("save notepad failed", 0)
                 ELSE Err("reqwest::Error", 0),
                 j, o.sent, Answer(o, reply), RespOf(cfg, "notepad-save", o), o.urlCalls, FALSE)

----------------------------------------------------------------------------
(* Spec: a client and the calls made on it *)

\* the Set-Cookie headers the services answer with in this specification
ClientHeaders(s) ==
    IF s = "youdao"
      THEN { SetCookie("OUTFOX_SEARCH_USER_ID", "v1", TRUE, ServiceDomain(s), TRUE, Root, FALSE),
             SetCookie("DICT_PERS", "v1", TRUE, ServiceDomain(s), TRUE, Root, FALSE),
             SetCookie("DICT_PERS", "", TRUE, ServiceDomain(s), TRUE, Root, TRUE),
             SetCookie("DICT_PERS", "v1", FALSE, <<>>, TRUE, Root, FALSE),
             Opaque }
      ELSE { SetCookie("userToken", "v1", FALSE, <<>>, TRUE, Root, FALSE),
             SetCookie("userToken", "", FALSE, <<>>, TRUE, Root, TRUE),
             SetCookie("userToken", "v1", TRUE, <<"com", "maimemo">>, TRUE, Root, FALSE),
             Opaque }

QuietHeaders(s) == {<<>>} \cup {<<h>> : h \in ClientHeaders(s)}

\* the answers of the transport: no answer, an error status, or a 200/302
\* response with some of the headers hss and one of the bodies
Replies(hss, bodies) ==
    {Reply(TRUE, 0, <<>>, NoBody)}
    \cup {Reply(FALSE, st, <<>>, b) : st \in Statuses \ {200, 302}, b \in bodies}
    \cup {Reply(FALSE, st, hs, b) : st \in {200, 302}, hs \in hss, b \in bodies}

\* the totals a word book may report
Totals ==
    {0, 1} \cup {k * PageLimit : k \in 1..MaxPages}
           \cup {k * PageLimit + 1 : k \in 1..(MaxPages - 1)}
           \cup {(MaxPages - 1) * PageLimit + 500}

\* the pages a server may answer the request at offset with: all the items
\* that are there, ten fewer, none, or no page at all
PageReplies(total, offset) ==
    LET there == IF total - offset > PageLimit THEN PageLimit
                 ELSE IF total > offset THEN total - offset ELSE 0
    IN  {Reply(TRUE, 0, <<>>, NoBody), Reply(FALSE, 500, <<>>, PageBody(total, there)),
         Reply(FALSE, 200, <<>>, Body("garbage"))}
        \cup {Reply(FALSE, 200, <<>>, PageBody(total, n)) :
                 n \in {there, 0} \cup (IF there >= 10 THEN {there - 10} ELSE {})}

RECURSIVE PageScripts(_, _)
PageScripts(total, k) ==
    IF k = 0 THEN {<<>>}
    ELSE {Append(s, r) : s \in PageScripts(total, k - 1),
                         r \in PageReplies(total, PageLimit * (k - 1))}

\* the jar a cookie_path file may hold when the client is built: nothing, or
\* the session markers and a cookie set for one page only
StoredJars(s) ==
    { {},
      {Cookie(ServiceDomain(s), s = "maimemo", Root, m, "v1", FALSE) : m \in Markers(s)}
        \cup {Cookie(ServiceDomain(s), s = "maimemo",
                     IF s = "maimemo" THEN <<"notepad", "detail", "1">> ELSE <<"wordbook">>,
                     "lastViewed", "v1", FALSE)} }

Init ==
    /\ svc \in Services
    /\ config \in Configs(svc)
    /\ verbose \in BOOLEAN
    /\ jar \in StoredJars(svc)
    /\ crashed = FALSE
    /\ Idle
    /\ NoUpload
    /\ NoFiles
    /\ NoOffset
    /\ NoStore

\* the client runs one operation to its end
Call(name, a, e) ==
    /\ op = "idle"
    /\ ~crashed
    /\ op' = name
    /\ arg' = a
    /\ result' = e.result
    /\ jar' = e.jar
    /\ sent' = e.sent
    /\ served' = e.served
    /\ resp' = e.resp
    /\ urlCalls' = e.urlCalls
    /\ crashed' = e.panic
    /\ UNCHANGED <<svc, config, verbose>>
    /\ UNCHANGED uploadVars
    /\ UNCHANGED fileVars
    /\ UNCHANGED offsetVars
    /\ UNCHANGED storeVars

\* a caller sends one request through send_request and gets Ok(resp) or Err
SendRequest(req_name, hasBody, reply) ==
    LET o == send_request(config, jar, req_name, <<>>, "", hasBody, reply)
    IN  Call("send_request", req_name,
             Eff(IF o.ok THEN Ok(<<o.status>>) ELSE Err(o.err, o.status), jar, o.sent,
                 Answer(o, reply), IF o.ok THEN RespOf(config, req_name, o) ELSE NoResp,
                 o.urlCalls, o.panic))

LoginYoudao(reply1, reply2) ==
    /\ svc = "youdao"
    /\ Call("login", "", login_youdao(config, verbose, jar, reply1, reply2))

LoginMaimemo(reply) ==
    /\ svc = "maimemo"
    /\ Call("login", "", login_maimemo(config, jar, reply))

GetWordsTotal(reply) ==
    /\ svc = "youdao"
    /\ Call("get_words_total", "", get_words_total(config, jar, reply))

GetWords(probe, replies) ==
    /\ svc = "youdao"
    /\ Call("get_words", "", get_words(config, jar, probe, replies))

GetNotepadList(reply) ==
    /\ svc = "maimemo"
    /\ Call("get_notepad_list", "", get_notepad_list(config, jar, reply))

GetNotepadContents(notepad_id, reply) ==
    /\ svc = "maimemo"
    /\ Call("get_notepad_contents", notepad_id, get_notepad_contents(config, jar, notepad_id, reply))

RefreshCaptcha(reply) ==
    /\ svc = "maimemo"
    /\ Call("refresh_captcha", "", refresh_captcha(config, jar, reply))

SaveNotepad(hasContents, reply) ==
    /\ svc = "maimemo"
    /\ Call("save_notepad", "", save_notepad(config, jar, hasContents, reply))

Next ==
    \/ /\ op = "idle" /\ ~crashed
       /\ \E req_name \in ReqNames, hasBody \in BOOLEAN,
             reply \in Replies(QuietHeaders(svc), {NoBody}) :
             SendRequest(req_name, hasBody, reply)
    \/ /\ op = "idle" /\ ~crashed /\ svc = "youdao"
       /\ \E reply1 \in Replies(SeqsUpTo(ClientHeaders(svc), MaxPrimeCookies), {NoBody}),
             reply2 \in Replies(SeqsUpTo(ClientHeaders(svc), MaxSetCookies),
                                {Body("html"), Body("unreadable")}) :
             LoginYoudao(reply1, reply2)
    \/ /\ op = "idle" /\ ~crashed /\ svc = "maimemo"
       /\ \E reply \in Replies(SeqsUpTo(ClientHeaders(svc), MaxSetCookies), {Body("html")}) :
             LoginMaimemo(reply)
    \/ /\ op = "idle" /\ ~crashed /\ svc = "youdao"
       /\ \E reply \in Replies(QuietHeaders(svc), {Body("garbage")} \cup {PageBody(t, 1) : t \in Totals}) :
             GetWordsTotal(reply)
    \/ /\ op = "idle" /\ ~crashed /\ svc = "youdao"
       /\ \E probe \in Replies({<<>>}, {Body("garbage")} \cup {PageBody(t, 1) : t \in Totals}) :
             \E replies \in (IF probe.body.kind = "page"
                               THEN PageScripts(probe.body.total, Ceil(probe.body.total, PageLimit))
                               ELSE {<<>>}) :
                GetWords(probe, replies)
    \/ /\ op = "idle" /\ ~crashed /\ svc = "maimemo"
       /\ \E reply \in Replies(QuietHeaders(svc), {Body("list"), Body("nolist"), Body("garbage")}) :
             GetNotepadList(reply)
    \/ /\ op = "idle" /\ ~crashed /\ svc = "maimemo"
       /\ \E notepad_id \in {"1"},
             reply \in Replies(QuietHeaders(svc), {Body("html"), Body("garbage"), Body("unreadable")}) :
             GetNotepadContents(notepad_id, reply)
    \/ /\ op = "idle" /\ ~crashed /\ svc = "maimemo"
       /\ \E reply \in Replies(QuietHeaders(svc), {Body("image"), Body("garbage"), Body("unreadable")}) :
             RefreshCaptcha(reply)
    \/ /\ op = "idle" /\ ~crashed /\ svc = "maimemo"
       /\ \E hasContents \in BOOLEAN,
             reply \in Replies(QuietHeaders(svc), {Body("saved"), Body("rejected"), Body("garbage")}) :
             SaveNotepad(hasContents, reply)
    \/ Return

Spec == Init /\ [][Next]_vars

----------------------------------------------------------------------------
(* Claims on Spec: the dispatcher *)

\* the transport answered request i of the last call with a response
Answered(i) == i \in 1..Len(served) /\ ~served[i].transport

\* C1: send_request returns the response to its caller exactly when the status
\* is 200 or 302; for every other status the caller gets an error carrying the
\* status code and no response.  The same holds for every client operation: a
\* response of another status ends the operation with that error, whatever its
\* body holds.
C1_StatusGate ==
    /\ (op = "send_request" /\ Answered(1)) =>
          /\ result.ok <=> served[1].status \in {200, 302}
          /\ result.ok => resp # NoResp /\ result.val = <<served[1].status>>
          /\ ~result.ok => /\ result.err = "Response code error"
                           /\ result.status = served[1].status
                           /\ resp = NoResp
    /\ \A i \in 1..Len(served) :
          (Answered(i) /\ served[i].status \notin {200, 302}) =>
              /\ ~result.ok
              /\ result.err = "Response code error"
              /\ result.status = served[i].status
              /\ i = Len(served)

C1_Witness ==
    /\ op = "send_request"
    /\ Answered(1)
    /\ served[1].status = 302
    /\ result.ok
    /\ resp.setCookies # <<>>

\* C2: for a request name that is not a key of the configured templates,
\* send_request returns an error, dispatches no request and does not apply the
\* url_handler.
C2_UnknownName ==
    (op = "send_request" /\ arg \notin DOMAIN config) =>
        /\ ~result.ok
        /\ result.err = "not found req config"
        /\ sent = <<>>
        /\ urlCalls = 0

C2_Witness ==
    /\ op = "send_request"
    /\ arg = "no-such-request"
    /\ ~result.ok
    /\ sent = <<>>

----------------------------------------------------------------------------
(* Claims on Spec: the clients *)

AuthOps == {"get_notepad_list", "get_notepad_contents", "refresh_captcha", "save_notepad",
            "get_words_total", "get_words"}

NoSetCookieMsg ==
    "Frequent login may have been added to youdao blacklist, not found any set-cookie in login resp"
NoLoginCookieMsg == "login failed. not found login cookies"

\* login() got the login response (the last request it dispatched was the
\* login request and was answered 200 or 302) and ingested it
LoginAnswered ==
    /\ op = "login"
    /\ ~crashed
    /\ sent # <<>>
    /\ sent[Len(sent)].name = "login"
    /\ Answered(Len(sent))
    /\ served[Len(sent)].status \in {200, 302}

\* the errors Youdao login() reports for a login response without any
\* Set-Cookie header
NoSetCookieErrors == {NoSetCookieMsg, "reqwest::Error"}

\* C6: login() returns Ok only if has_logged() is true once the login
\* response's Set-Cookie headers are ingested, and an error otherwise; Youdao
\* login() reports, for a response that has Set-Cookie headers but leaves the
\* predicate false, an error that it never reports for a response without any
\* Set-Cookie header.
C6_LoginOutcome ==
    /\ (op = "login" /\ result.ok) => (LoginAnswered /\ has_logged(svc, jar))
    /\ (LoginAnswered /\ ~has_logged(svc, jar)) => ~result.ok
    /\ (LoginAnswered /\ svc = "youdao" /\ resp.setCookies = <<>>)
          => result.err \in NoSetCookieErrors
    /\ (LoginAnswered /\ svc = "youdao" /\ resp.setCookies # <<>> /\ ~has_logged(svc, jar))
          => result.err \notin NoSetCookieErrors

\* the body of the login response could not be read
LoginBodyUnreadable == Unreadable(served[Len(served)].body)

\* C6 amended: login() returns Ok only if has_logged() is true once the login
\* response's Set-Cookie headers are ingested, and an error otherwise.  Youdao
\* login() reports the 'no Set-Cookie' error for a response without any
\* Set-Cookie header and the 'login cookies not found' error for one that has
\* Set-Cookie headers but leaves the predicate false, except that a failure to
\* read the response body (read always in the first case, only with logging
\* enabled in the second) is returned instead.
C6_LoginOutcomeOrReadError ==
    /\ (op = "login" /\ result.ok) => (LoginAnswered /\ has_logged(svc, jar))
    /\ (LoginAnswered /\ ~has_logged(svc, jar)) => ~result.ok
    /\ (LoginAnswered /\ svc = "youdao" /\ resp.setCookies = <<>>) =>
          result.err = IF LoginBodyUnreadable THEN "reqwest::Error" ELSE NoSetCookieMsg
    /\ (LoginAnswered /\ svc = "youdao" /\ resp.setCookies # <<>> /\ ~has_logged(svc, jar)) =>
          result.err = IF verbose /\ LoginBodyUnreadable THEN "reqwest::Error"
                       ELSE NoLoginCookieMsg

C6_Witness ==
    /\ LoginAnswered
    /\ svc = "youdao"
    /\ Len(sent) = 2
    /\ resp.setCookies # <<>>
    /\ ~has_logged(svc, jar)
    /\ LoginBodyUnreadable
    /\ result.err = NoLoginCookieMsg

\* the page requests of the last get_words call: all it dispatched but the probe
PageRequests == Tail(sent)

\* the total the probe of the last get_words call reported
ProbedTotal == served[1].body.total

\* get_words got a total from its probe
Probed ==
    /\ op = "get_words"
    /\ Answered(1)
    /\ served[1].status \in {200, 302}
    /\ served[1].body.kind = "page"

\* every page request of the last call was answered with a page
PagesAnswered ==
    \A i \in 2..Len(served) :
        Answered(i) /\ served[i].status \in {200, 302} /\ served[i].body.kind = "page"

\* n pages cover total items: the least n with n * 1000 >= total
Covers(n, total) == n * 1000 >= total /\ (n = 0 \/ (n - 1) * 1000 < total)

\* the items of the answered pages i.. in request order, as runs
RECURSIVE PagesFrom(_)
PagesFrom(i) ==
    IF i > Len(served) THEN <<>>
    ELSE (IF served[i].body.n = 0 THEN <<>>
          ELSE <<[offset |-> sent[i].query[2], n |-> served[i].body.n]>>) \o PagesFrom(i + 1)

\* C7: get_words with a reported total T sends one probe and then the page
\* requests one after the other with limit 1000 and offsets 0, 1000, 2000, ...:
\* never more than ceil(T/1000) of them, exactly ceil(T/1000) when each is
\* answered with a page (3 for T = 2500), and what it returns is the pages'
\* items concatenated in request order.
C7_Pagination ==
    Probed =>
        /\ sent[1].name = "get-words" /\ sent[1].query = <<1, 0>>
        /\ \A i \in 1..Len(PageRequests) :
              /\ PageRequests[i].name = "get-words"
              /\ PageRequests[i].query = <<1000, 1000 * (i - 1)>>
        /\ \E n \in 0..(ProbedTotal + 1) :
              /\ Covers(n, ProbedTotal)
              /\ Len(PageRequests) <= n
              /\ PagesAnswered => Len(PageRequests) = n
        /\ (ProbedTotal = 2500 /\ PagesAnswered) => Len(PageRequests) = 3
        /\ result.ok => (PagesAnswered /\ result.val = PagesFrom(2))

C7_Witness ==
    /\ Probed
    /\ ProbedTotal = 2500
    /\ result.ok
    /\ Len(PageRequests) = 3
    /\ PageRequests[3].query = <<1000, 2000>>
    /\ result.val = <<[offset |-> 0, n |-> 1000], [offset |-> 1000, n |-> 1000],
                      [offset |-> 2000, n |-> 500]>>

\* the number of items the answered pages of the last call held
ItemsReceived == WordCount(PagesFrom(2))

\* C8: get_words returns Ok(words) only if the number of items received equals
\* the total the probe reported; when all pages are in and the counts differ it
\* returns the count-mismatch error and no list.
C8_CountCheck ==
    Probed =>
        /\ result.ok => (ItemsReceived = ProbedTotal /\ WordCount(result.val) = ProbedTotal)
        /\ (PagesAnswered /\ ItemsReceived # ProbedTotal) =>
              /\ ~result.ok
              /\ result.err = "The number of words obtained is not the same as the total number!"
              /\ result.val = <<>>

C8_Witness ==
    /\ Probed
    /\ ProbedTotal = 2500
    /\ PagesAnswered
    /\ Len(PageRequests) = 3
    /\ ItemsReceived = 2490
    /\ ~result.ok
    /\ result.val = <<>>

----------------------------------------------------------------------------
(* SpecUpload: MaimemoApp::upload_notepad (main.rs), one call of it *)

\* The input stream is read one line at a time.  On a terminal (tty) an
\* end-of-stream mark typed by the operator ends one read and the stream goes
\* on; on a pipe or a file end-of-stream stays.
ReadLine(l) == [read |-> "line", line |-> l]
ReadEof == [read |-> "eof", line |-> ""]
ReadError == [read |-> "error", line |-> ""]

\* the lines the operator types at a prompt
Lines == {"y", "Y", "abcd"}

\* lines().next_line() on stdin: Ok(Some(line)), Ok(None) or Err
NextLine(in) ==
    IF ~in.tty /\ in.eof THEN {ReadEof}
    ELSE {ReadLine(l) : l \in Lines} \cup {ReadEof, ReadError}

\* the stream after a read
Consumed(in, r) == [in EXCEPT !.eof = in.eof \/ r.read = "eof"]

\* the lines of new content
ContentLines == SeqsUpTo({"word"}, MaxLines)

\* the notepads of the app: one with contents, one without
LocalNotepads == <<Notepad("n1", TRUE, <<"old">>), Notepad("n2", FALSE, <<>>)>>

\* the ids upload_notepad is called with; "n9" is not a local notepad
NotepadIds == {"n1", "n2", "n9"}

\* one event of an attempt: a refresh_captcha call, the read of the solution
\* line, a save_notepad call (with the content and the solution it carried),
\* the read of the continuation line
Event(ev, dispatched, ok, r, contents) ==
    [ev |-> ev, dispatched |-> dispatched, ok |-> ok, read |-> r.read, line |-> r.line,
     contents |-> contents]

\* 1 if the call dispatched a request
Dispatched(e) == IF e.sent # <<>> THEN 1 ELSE 0

\* the lookup with a slip: an unknown id falls back to the first record
Find_fallback(nps, notepad_id) ==
    LET found == {i \in 1..Len(nps) : nps[i].id = notepad_id}
    IN  IF found = {} THEN {1} ELSE {CHOOSE i \in found : \A k \in found : i <= k}

\* iter().find(|n| n.get_notepad_id() == notepad_id): the first index, if any
Find(nps, notepad_id) ==
    LET found == {i \in 1..Len(nps) : nps[i].id = notepad_id}
    IN  IF found = {} THEN {} ELSE {CHOOSE i \in found : \A k \in found : i <= k}

\* get_uploaded_notepad with a slip: the existing content is cleared when
\* appending and kept when overwriting
get_uploaded_notepad_inverted(nps, notepad_id, is_appending, timestamp, lines, ending) ==
    LET found == Find(nps, notepad_id)
        n == nps[CHOOSE i \in found : TRUE]
    IN  IF found = {}
          THEN [result |-> Err("not found notepad_id", 0), panic |-> FALSE, notepad |-> NoNotepad,
                reads |-> FALSE]
        ELSE IF ~n.has
          THEN [result |-> Err("panic", 0), panic |-> TRUE, notepad |-> NoNotepad,
                reads |-> FALSE]
        ELSE IF ending = "error"
          THEN [result |-> Err("io::Error", 0), panic |-> FALSE, notepad |-> NoNotepad,
                reads |-> TRUE]
        ELSE [result |-> Ok(<<>>), panic |-> FALSE, reads |-> TRUE,
              notepad |-> Notepad(n.id, TRUE,
                                  (IF is_appending THEN <<>> ELSE n.contents)
                                  \o (IF timestamp THEN <<"# timestamp">> ELSE <<>>)
                                  \o lines)]

\* get_uploaded_notepad(notepad_id, is_appending, timestamp) with
\* read_contents_from_stdin: lines are the lines read before the stream ended
\* (ending = "eof") or failed (ending = "error")
get_uploaded_notepad(nps, notepad_id, is_appending, timestamp, lines, ending) ==
    LET found == Find(nps, notepad_id)
        n == nps[CHOOSE i \in found : TRUE]
    IN  IF found = {}
          THEN [result |-> Err("not found notepad_id", 0), panic |-> FALSE, notepad |-> NoNotepad,
                reads |-> FALSE]
        ELSE IF ~n.has                                  \* get_contents_mut().unwrap()
          THEN [result |-> Err("panic", 0), panic |-> TRUE, notepad |-> NoNotepad,
                reads |-> FALSE]
        ELSE IF ending = "error"
          THEN [result |-> Err("io::Error", 0), panic |-> FALSE, notepad |-> NoNotepad,
                reads |-> TRUE]
        ELSE [result |-> Ok(<<>>), panic |-> FALSE, reads |-> TRUE,
              notepad |-> Notepad(n.id, TRUE,
                                  (IF is_appending THEN n.contents ELSE <<>>)
                                  \o (IF timestamp THEN <<"# timestamp">> ELSE <<>>)
                                  \o lines)]

\* the answers of the transport to the captcha and the save request
UploadReplies(bodies) ==
    {Reply(TRUE, 0, <<>>, NoBody), Reply(FALSE, 500, <<>>, NoBody)}
    \cup {Reply(FALSE, st, <<>>, b) : st \in {200, 302}, b \in bodies}

CaptchaReplies == UploadReplies({Body("image"), Body("garbage"), Body("unreadable")})

SaveReplies == UploadReplies({Body("saved"), Body("rejected"), Body("unreadable")})

InitUpload ==
    /\ svc = "maimemo"
    /\ config \in Configs(svc)
    /\ verbose = FALSE
    /\ jar \in StoredJars(svc)
    /\ crashed = FALSE
    /\ Idle
    /\ notepads = LocalNotepads
    /\ is_updated \in BOOLEAN                       \* from_web: TRUE, from_file: FALSE
    /\ dictionary = IF is_updated THEN <<>> ELSE notepads
    /\ stdin \in [tty : BOOLEAN, eof : {FALSE}]
    /\ pc = "start"
    /\ new_notepad = NoNotepad
    /\ upId = ""
    /\ upArgs = NoArgs
    /\ captcha = ""
    /\ log = <<>>
    /\ count = NoCount
    /\ upResult = Ok(<<>>)
    /\ before = [notepads |-> notepads, is_updated |-> is_updated, dictionary |-> dictionary]
    /\ NoFiles
    /\ NoOffset
    /\ NoStore

\* one operation of the client inside the workflow
ClientCall(name, e) ==
    /\ op' = name
    /\ arg' = ""
    /\ result' = e.result
    /\ sent' = e.sent
    /\ served' = e.served
    /\ resp' = e.resp
    /\ urlCalls' = e.urlCalls
    /\ UNCHANGED <<svc, config, verbose, jar>>
    /\ UNCHANGED fileVars
    /\ UNCHANGED offsetVars
    /\ UNCHANGED storeVars

\* upload_notepad up to its loop: the client is built (built = FALSE: new()
\* failed), the login check, get_uploaded_notepad
UploadNotepad(notepad_id, is_appending, timestamp, built, lines, ending) ==
    LET g == get_uploaded_notepad(notepads, notepad_id, is_appending, timestamp, lines, ending)
        early == ~built \/ ~has_logged(svc, jar)
    IN  /\ pc = "start"
        /\ upId' = notepad_id
        /\ upArgs' = [is_appending |-> is_appending, timestamp |-> timestamp, lines |-> lines]
        /\ upResult' = IF ~built THEN Err("build client", 0)
                       ELSE IF ~has_logged(svc, jar) THEN Err("Not logged in", 0)
                       ELSE g.result
        /\ crashed' = (~early /\ g.panic)
        /\ new_notepad' = IF early THEN NoNotepad ELSE g.notepad
        /\ stdin' = IF ~early /\ g.reads /\ ending = "eof" THEN Consumed(stdin, ReadEof) ELSE stdin
        /\ pc' = IF ~early /\ g.result.ok THEN "attempt" ELSE "done"
        /\ UNCHANGED <<notepads, is_updated, captcha, log, count, dictionary, before>>
        /\ UNCHANGED <<svc, config, verbose, jar, op, arg, result, sent, served, resp, urlCalls>>
        /\ UNCHANGED fileVars
        /\ UNCHANGED offsetVars
        /\ UNCHANGED storeVars

\* read_captcha_from_stdin with a slip: a failed captcha request ends
\* upload_notepad with the error
ReadCaptcha_abort(reply, printed) ==
    LET e == refresh_captcha(config, jar, reply)
        decoded == e.result.ok /\ e.result.val = <<"image">>
    IN  /\ pc = "attempt"
        /\ ClientCall("refresh_captcha", e)
        /\ log' = Append(log, Event("captcha", e.sent # <<>>, e.result.ok, ReadEof, <<>>))
        /\ count' = [count EXCEPT !.attempts = @ + 1, !.captcha = @ + Dispatched(e)]
        /\ crashed' = (decoded /\ ~printed)
        /\ pc' = IF ~e.result.ok THEN "done"
                 ELSE IF ~decoded THEN "prompt" ELSE IF printed THEN "solution" ELSE "done"
        /\ upResult' = IF ~e.result.ok THEN e.result
                       ELSE IF decoded /\ ~printed THEN Err("panic", 0) ELSE upResult
        /\ UNCHANGED <<notepads, is_updated, stdin, new_notepad, upId, upArgs, captcha, dictionary, before>>

\* read_captcha_from_stdin up to the prompt: refresh_captcha, the image is
\* decoded and printed (printed = FALSE: viuer::print failed, expect panics)
ReadCaptcha(reply, printed) ==
    LET e == refresh_captcha(config, jar, reply)
        decoded == e.result.ok /\ e.result.val = <<"image">>
    IN  /\ pc = "attempt"
        /\ ClientCall("refresh_captcha", e)
        /\ log' = Append(log, Event("captcha", e.sent # <<>>, e.result.ok, ReadEof, <<>>))
        /\ count' = [count EXCEPT !.attempts = @ + 1, !.captcha = @ + Dispatched(e)]
        /\ crashed' = (decoded /\ ~printed)
        /\ pc' = IF ~decoded THEN "prompt" ELSE IF printed THEN "solution" ELSE "done"
        /\ upResult' = IF decoded /\ ~printed THEN Err("panic", 0) ELSE upResult
        /\ UNCHANGED <<notepads, is_updated, stdin, new_notepad, upId, upArgs, captcha, dictionary, before>>

\* the read with a slip: the end of the stream is taken for an empty line
ReadSolution_blank(r) ==
    /\ pc = "solution"
    /\ r \in NextLine(stdin)
    /\ stdin' = Consumed(stdin, r)
    /\ captcha' = r.line
    /\ log' = Append(log, Event("solution", FALSE, r.read # "error", r, <<>>))
    /\ pc' = IF r.read # "error" THEN "save" ELSE "prompt"
    /\ UNCHANGED <<notepads, is_updated, new_notepad, upId, upArgs, count, upResult, dictionary, before>>
    /\ UNCHANGED clientVars
    /\ UNCHANGED fileVars
    /\ UNCHANGED offsetVars
    /\ UNCHANGED storeVars

\* the read with a slip: a solution typed for an earlier captcha is kept
ReadSolution_stale(r) ==
    /\ pc = "solution"
    /\ r \in NextLine(stdin)
    /\ stdin' = Consumed(stdin, r)
    /\ captcha' = IF captcha = "" THEN r.line ELSE captcha
    /\ log' = Append(log, Event("solution", FALSE, r.read = "line", r, <<>>))
    /\ pc' = IF r.read = "line" THEN "save" ELSE "prompt"
    /\ UNCHANGED <<notepads, is_updated, new_notepad, upId, upArgs, count, upResult, dictionary, before>>
    /\ UNCHANGED clientVars
    /\ UNCHANGED fileVars
    /\ UNCHANGED offsetVars
    /\ UNCHANGED storeVars

\* read_captcha_from_stdin at the prompt: one line is the solution
ReadSolution(r) ==
    /\ pc = "solution"
    /\ r \in NextLine(stdin)
    /\ stdin' = Consumed(stdin, r)
    /\ captcha' = r.line
    /\ log' = Append(log, Event("solution", FALSE, r.read = "line", r, <<>>))
    /\ pc' = IF r.read = "line" THEN "save" ELSE "prompt"
    /\ UNCHANGED <<notepads, is_updated, new_notepad, upId, upArgs, count, upResult, dictionary, before>>
    /\ UNCHANGED clientVars
    /\ UNCHANGED fileVars
    /\ UNCHANGED offsetVars
    /\ UNCHANGED storeVars

\* the replacement with a slip: every local record becomes the uploaded one
Replaced_every(nps, notepad_id, n) == [k \in 1..Len(nps) |-> n]

\* the local record is replaced by the uploaded one
Replaced(nps, notepad_id, n) ==
    [k \in 1..Len(nps) |-> IF k \in Find(nps, notepad_id) THEN n ELSE nps[k]]

\* upload with a slip: a failed submission starts the next attempt by itself
Upload_retrying(reply) ==
    LET e == save_notepad(config, jar, new_notepad.has, reply)
    IN  /\ pc = "save"
        /\ ClientCall("save_notepad", e)
        /\ log' = Append(log, Event("save", e.sent # <<>>, e.result.ok, ReadLine(captcha),
                                    new_notepad.contents))
        /\ count' = [count EXCEPT !.save = @ + Dispatched(e),
                                  !.failed = @ + (IF e.result.ok THEN 0 ELSE 1)]
        /\ notepads' = IF e.result.ok THEN Replaced(notepads, upId, new_notepad) ELSE notepads
        /\ is_updated' = (e.result.ok \/ is_updated)
        /\ upResult' = IF e.result.ok THEN Ok(<<>>) ELSE upResult
        /\ pc' = IF e.result.ok THEN "done"
                 ELSE IF count.attempts < MaxAttempts THEN "attempt" ELSE "prompt"
        /\ UNCHANGED <<stdin, new_notepad, upId, upArgs, captcha, dictionary, before, crashed>>

\* upload: save_notepad(new_notepad.clone(), captcha); on Ok the loop ends and
\* upload_notepad updates the local state
Upload(reply) ==
    LET e == save_notepad(config, jar, new_notepad.has, reply)
    IN  /\ pc = "save"
        /\ ClientCall("save_notepad", e)
        /\ log' = Append(log, Event("save", e.sent # <<>>, e.result.ok, ReadLine(captcha),
                                    new_notepad.contents))
        /\ count' = [count EXCEPT !.save = @ + Dispatched(e),
                                  !.failed = @ + (IF e.result.ok THEN 0 ELSE 1)]
        /\ notepads' = IF e.result.ok THEN Replaced(notepads, upId, new_notepad) ELSE notepads
        /\ is_updated' = (e.result.ok \/ is_updated)
        /\ upResult' = IF e.result.ok THEN Ok(<<>>) ELSE upResult
        /\ pc' = IF e.result.ok THEN "done" ELSE "prompt"
        /\ UNCHANGED <<stdin, new_notepad, upId, upArgs, captcha, dictionary, before, crashed>>

\* the answer with a slip: an upper-case Y is taken for a yes as well
confirmed_loosely(line) == line \in {"y", "Y"}

\* line == "y"
confirmed(line) == line = "y"

\* the loop with a slip: an answer other than "y" does not end the loop, the
\* solution of the captcha is asked for again
Confirm_insisting(r) ==
    LET again == r.read = "line" /\ confirmed(r.line)
    IN  /\ pc = "prompt"
        /\ r \in NextLine(stdin)
        /\ again => count.attempts < MaxAttempts
        /\ stdin' = Consumed(stdin, r)
        /\ log' = IF again THEN <<Event("answer", FALSE, TRUE, r, <<>>)>> ELSE <<>>
        /\ count' = [count EXCEPT !.yes = @ + (IF again THEN 1 ELSE 0)]
        /\ pc' = IF again THEN "attempt" ELSE "solution"
        /\ upResult' = upResult
        /\ UNCHANGED <<notepads, is_updated, new_notepad, upId, upArgs, captcha, dictionary, before>>
        /\ UNCHANGED clientVars
        /\ UNCHANGED fileVars
        /\ UNCHANGED offsetVars
        /\ UNCHANGED storeVars

\* the loop with a slip: a retry submits again with the captcha it has
Confirm_cached(r) ==
    LET again == r.read = "line" /\ confirmed(r.line)
    IN  /\ pc = "prompt"
        /\ r \in NextLine(stdin)
        /\ again => count.attempts < MaxAttempts
        /\ stdin' = Consumed(stdin, r)
        /\ log' = IF again THEN <<Event("answer", FALSE, TRUE, r, <<>>)>>
                  ELSE Append(log, Event("answer", FALSE, FALSE, r, <<>>))
        /\ count' = [count EXCEPT !.yes = @ + (IF again THEN 1 ELSE 0)]
        /\ pc' = IF again THEN (IF count.save > 0 THEN "save" ELSE "attempt") ELSE "done"
        /\ upResult' = IF again THEN upResult
                       ELSE IF r.read = "error" THEN Err("io::Error", 0)
                       ELSE IF r.read = "eof" THEN Err("line is none", 0)
                       ELSE Err("User confirm exit", 0)
        /\ UNCHANGED <<notepads, is_updated, new_notepad, upId, upArgs, captcha, dictionary, before>>
        /\ UNCHANGED clientVars
        /\ UNCHANGED fileVars
        /\ UNCHANGED offsetVars
        /\ UNCHANGED storeVars

\* the continuation prompt of the loop: one line is read
Confirm(r) ==
    LET again == r.read = "line" /\ confirmed(r.line)
    IN  /\ pc = "prompt"
        /\ r \in NextLine(stdin)
        /\ again => count.attempts < MaxAttempts
        /\ stdin' = Consumed(stdin, r)
        /\ log' = IF again THEN <<Event("answer", FALSE, TRUE, r, <<>>)>>
                  ELSE Append(log, Event("answer", FALSE, FALSE, r, <<>>))
        /\ count' = [count EXCEPT !.yes = @ + (IF again THEN 1 ELSE 0)]
        /\ pc' = IF again THEN "attempt" ELSE "done"
        /\ upResult' = IF again THEN upResult
                       ELSE IF r.read = "error" THEN Err("io::Error", 0)
                       ELSE IF r.read = "eof" THEN Err("line is none", 0)
                       ELSE Err("User confirm exit", 0)
        /\ UNCHANGED <<notepads, is_updated, new_notepad, upId, upArgs, captcha, dictionary, before>>
        /\ UNCHANGED clientVars
        /\ UNCHANGED fileVars
        /\ UNCHANGED offsetVars
        /\ UNCHANGED storeVars

\* MaimemoApp::list_contents(notepad_id): the contents of the first record with
\* that id, Some as a singleton, None as {}
list_contents(nps, notepad_id) ==
    LET found == Find(nps, notepad_id)
        n == nps[CHOOSE i \in found : TRUE]
    IN  IF found = {} THEN {} ELSE IF n.has THEN {n.contents} ELSE {}

\* Drop for MaimemoApp: the snapshot is written only if is_updated
\* (written = FALSE: save_json failed)
Drop(written) ==
    /\ pc = "done"
    /\ pc' = "dropped"
    /\ dictionary' = IF is_updated /\ written THEN notepads ELSE dictionary
    /\ UNCHANGED <<notepads, is_updated, stdin, new_notepad, upId, upArgs, captcha, log, count, upResult, before>>
    /\ UNCHANGED clientVars
    /\ UNCHANGED fileVars
    /\ UNCHANGED offsetVars
    /\ UNCHANGED storeVars

NextUpload ==
    \/ /\ pc = "start"
       /\ \E notepad_id \in NotepadIds, is_appending \in BOOLEAN, timestamp \in BOOLEAN,
             built \in BOOLEAN, lines \in ContentLines, ending \in {"eof", "error"} :
             UploadNotepad(notepad_id, is_appending, timestamp, built, lines, ending)
    \/ /\ pc = "attempt"
       /\ \E reply \in CaptchaReplies, printed \in BOOLEAN : ReadCaptcha(reply, printed)
    \/ /\ pc = "solution"
       /\ \E r \in NextLine(stdin) : ReadSolution(r)
    \/ /\ pc = "save"
       /\ \E reply \in SaveReplies : Upload(reply)
    \/ /\ pc = "prompt"
       /\ \E r \in NextLine(stdin) : Confirm(r)
    \/ /\ pc = "done"
       /\ \E written \in BOOLEAN : Drop(written)

SpecUpload == InitUpload /\ [][NextUpload]_vars

\* the positions of the workflow
Stages == {"start", "attempt", "solution", "save", "prompt", "done", "dropped"}

\* The workflow leaves the position it is at: the call it awaits there returns
\* (a request with the answer or the error of the transport, a read of the
\* input stream with a line, end-of-stream or an error).
Leaves == pc # "dropped" /\ pc' \in Stages /\ pc' # pc

\* upload_notepad is sequential code: whatever it awaits returns, so it does
\* not stay at one position for ever
SpecUploadFair == SpecUpload /\ WF_pc(Leaves)

----------------------------------------------------------------------------
(* SpecRetry: the operations that may dispatch a request again: login called
   on a client, and the upload workflow *)

InitRetry == Init \/ InitUpload

NextRetry ==
    \/ /\ pc = "off" /\ op = "idle" /\ ~crashed /\ svc = "youdao"
       /\ \E reply1 \in Replies(QuietHeaders(svc), {NoBody}),
             reply2 \in Replies(QuietHeaders(svc), {Body("html")}) :
             LoginYoudao(reply1, reply2)
    \/ /\ pc = "off" /\ op = "idle" /\ ~crashed /\ svc = "maimemo"
       /\ \E reply \in Replies(QuietHeaders(svc), {Body("html")}) : LoginMaimemo(reply)
    \/ /\ pc = "off"
       /\ Return
    \/ NextUpload

SpecRetry == InitRetry /\ [][NextRetry]_vars

----------------------------------------------------------------------------
(* SpecOffset: YoudaoApp::filter_offset (main.rs) on a list of words *)

\* the items of the lists
Items == {"a", "b", "c"}

\* the offsets tried: within the list's length and one beyond the longest list
Offsets == (0 - MaxWords - 1)..(MaxWords + 1)

\* while count > 0 { count -= 1; words.pop(); }
RECURSIVE Pop(_, _)
Pop(ws, n) ==
    IF n > 0 THEN Pop(IF ws = <<>> THEN ws ELSE SubSeq(ws, 1, Len(ws) - 1), n - 1) ELSE ws

\* words.drain(0..start)
Drain(ws, start) == SubSeq(ws, start + 1, Len(ws))

\* what a call of filter_offset leaves
Filtered(ws) == [done |-> TRUE, panic |-> FALSE, spins |-> FALSE, words |-> ws]

\* filter_offset with a slip: a negative offset keeps the first items
filter_offset_front(ws, off, build) ==
    IF off > 0
      THEN IF off > Len(ws)
             THEN IF build = "debug" THEN [Filtered(ws) EXCEPT !.panic = TRUE]
                  ELSE [Filtered(<<>>) EXCEPT !.spins = TRUE]
             ELSE Filtered(Pop(ws, Len(ws) - off))
    ELSE IF off < 0
      THEN IF Len(ws) + off < 0
             THEN [Filtered(ws) EXCEPT !.panic = TRUE]
             ELSE Filtered(Pop(ws, Len(ws) + off))
    ELSE Filtered(ws)

\* filter_offset(words, offset).  words.len() - offset as usize is an unsigned
\* subtraction: with offset > len a debug build panics and a release build
\* wraps, so the loop pops from the emptied list for about 2^64 rounds.
\* (len as isize + offset) as usize wraps for offset < -len, and drain panics
\* on the range.
filter_offset(ws, off, build) ==
    IF off > 0
      THEN IF off > Len(ws)
             THEN IF build = "debug" THEN [Filtered(ws) EXCEPT !.panic = TRUE]
                  ELSE [Filtered(<<>>) EXCEPT !.spins = TRUE]
             ELSE Filtered(Pop(ws, Len(ws) - off))
    ELSE IF off < 0
      THEN IF Len(ws) + off < 0
             THEN [Filtered(ws) EXCEPT !.panic = TRUE]
             ELSE Filtered(Drain(ws, Len(ws) + off))
    ELSE Filtered(ws)

\* WordItem.modified_time of the items, in days: "b" and "c" were modified on
\* the same day
modified_time(w) == IF w = "a" THEN 1 ELSE 2

\* the date arguments tried
Dates == {NoDate, BadDate} \cup {Day(d) : d \in 1..3}

\* parse_date(date): Some(time) as a singleton; None for an absent date and for
\* text that does not parse (a warning is logged)
parse_date(date) == IF date.kind = "date" THEN {date.day} ELSE {}

\* the filter closure of list: match (start, end)
InInterval(w, start, end) ==
    /\ \A st \in start : modified_time(w) >= st
    /\ \A en \in end : modified_time(w) <= en

\* word_items.iter().filter(..).collect()
Collect(ws, start, end) == SelectSeq(ws, LAMBDA w : InInterval(w, start, end))

\* the orders of ws
Orders(ws) ==
    {[i \in 1..Len(ws) |-> ws[f[i]]] :
        f \in {g \in [1..Len(ws) -> 1..Len(ws)] : \A i, k \in 1..Len(ws) : g[i] = g[k] => i = k}}

\* words.sort_unstable_by(|a, b| b.modified_time.cmp(&a.modified_time)): an
\* order of the words in which no word comes before a word modified later;
\* the sort is unstable, so words of one modified_time come in any order
sort_unstable_by(ws) ==
    {s \in Orders(ws) : \A i, k \in 1..Len(s) : i < k => modified_time(s[i]) >= modified_time(s[k])}

\* YoudaoApp::list(start_date, end_date, offset): what the call may return,
\* one outcome for each order the sort may leave
list(word_items, start, end, off, build) ==
    LET Returned_as(sorted, f) ==
            [done |-> TRUE, sorted |-> sorted, panic |-> f.panic, spins |-> f.spins,
             words |-> f.words]
    IN  {Returned_as(sorted, filter_offset(sorted, off, build)) :
            sorted \in sort_unstable_by(Collect(word_items, parse_date(start), parse_date(end)))}

InitOffset ==
    /\ svc \in Services
    /\ config = FullConfig(svc)
    /\ verbose = FALSE
    /\ jar = {}
    /\ crashed = FALSE
    /\ Idle
    /\ NoUpload
    /\ NoFiles
    /\ offWords \in SeqsUpTo(Items, MaxWords)
    /\ offArg \in Offsets
    /\ filtered = NotFiltered
    /\ start_date \in Dates
    /\ end_date \in Dates
    /\ listed = NotListed
    /\ NoStore

\* one call of list on the words
List(build) ==
    /\ ~listed.done
    /\ listed' \in list(offWords, start_date, end_date, offArg, build)
    /\ UNCHANGED <<offWords, offArg, filtered, start_date, end_date>>
    /\ UNCHANGED storeVars
    /\ UNCHANGED clientVars
    /\ UNCHANGED uploadVars
    /\ UNCHANGED fileVars

\* one call of filter_offset on the list
FilterOffset(build) ==
    /\ ~filtered.done
    /\ filtered' = filter_offset(offWords, offArg, build)
    /\ UNCHANGED <<offWords, offArg, start_date, end_date, listed>>
    /\ UNCHANGED storeVars
    /\ UNCHANGED clientVars
    /\ UNCHANGED uploadVars
    /\ UNCHANGED fileVars

NextOffset ==
    \/ /\ ~filtered.done
       /\ \E build \in {"debug", "release"} : FilterOffset(build)
    \/ /\ ~listed.done
       /\ \E build \in {"debug", "release"} : List(build)

SpecOffset == InitOffset /\ [][NextOffset]_vars

----------------------------------------------------------------------------
(* Claims on SpecUpload *)

\* upload_notepad has returned
Returned == pc \in {"done", "dropped"}

\* C9: in upload_notepad every attempt requests a fresh captcha before its
\* submission: a save request is sent only after the captcha request of the
\* same attempt was answered and the solution line was read, and carries that
\* line; when the submission fails n times and then succeeds while the
\* operator answers "y" n times, n+1 captcha requests and n+1 save requests
\* were dispatched and the local record holds the submitted content.
C9_CaptchaPerAttempt ==
    /\ \A i \in 1..Len(log) :
          log[i].ev = "save" =>
             /\ i >= 3
             /\ log[i - 2].ev = "captcha" /\ log[i - 2].dispatched /\ log[i - 2].ok
             /\ log[i - 1].ev = "solution" /\ log[i - 1].read = "line"
             /\ log[i].line = log[i - 1].line
    /\ (Returned /\ upResult.ok /\ count.yes = count.failed) =>
          /\ count.captcha = count.failed + 1
          /\ count.save = count.failed + 1
          /\ log[Len(log)].ev = "save"
          /\ \E i \in Find(notepads, upId) :
                notepads[i].has /\ notepads[i].contents = log[Len(log)].contents

C9_Witness ==
    /\ pc = "done"
    /\ upResult.ok
    /\ count.failed = 2
    /\ count.yes = 2
    /\ count.captcha = 3
    /\ count.save = 3
    /\ notepads # before.notepads

\* C10: when an attempt has failed and the continuation line is a line other
\* than "y", the workflow stops there: upload_notepad returns an error, the
\* notepads are those of before the call, is_updated has its previous value,
\* and an app whose is_updated was false writes no snapshot when dropped.
C10_AbortKeepsState ==
    \A i \in 1..Len(log) :
       (log[i].ev = "answer" /\ log[i].read = "line" /\ log[i].line # "y") =>
          /\ i = Len(log)
          /\ Returned
          /\ ~upResult.ok
          /\ upResult.err = "User confirm exit"
          /\ notepads = before.notepads
          /\ is_updated = before.is_updated
          /\ (~before.is_updated => dictionary = before.dictionary)

C10_Witness ==
    /\ pc = "dropped"
    /\ log # <<>>
    /\ log[Len(log)].ev = "answer"
    /\ log[Len(log)].line = "Y"
    /\ count.failed = 1
    /\ ~before.is_updated
    /\ dictionary = before.dictionary

\* C11: when upload_notepad succeeds, list_contents(id) returns the content
\* that was submitted in the accepted save request, every record with another
\* id is the record of before the call, and is_updated is true.
C11_SuccessUpdatesRecord ==
    (Returned /\ upResult.ok) =>
        /\ log # <<>>
        /\ log[Len(log)].ev = "save"
        /\ list_contents(notepads, upId) = {log[Len(log)].contents}
        /\ Len(notepads) = Len(before.notepads)
        /\ \A k \in 1..Len(notepads) :
              before.notepads[k].id # upId => notepads[k] = before.notepads[k]
        /\ is_updated

C11_Witness ==
    /\ pc = "done"
    /\ upResult.ok
    /\ ~before.is_updated
    /\ is_updated
    /\ list_contents(notepads, upId) = {<<"old", "# timestamp", "word">>}
    /\ notepads[2] = before.notepads[2]

----------------------------------------------------------------------------
(* SpecFile: the cookie file over the life of a client (client/mod.rs
   save_cookie_store and build_cookie_store, the clients' new and Drop) *)

NoCookie == Cookie(<<>>, FALSE, <<>>, "", "", FALSE)

\* A file is a sequence of units.  CookieStore::save_json writes one line per
\* cookie: here an opening unit that stands for everything of the line but the
\* value, one unit per piece of the value, and a closing unit for the end of
\* the line.  A "junk" unit is content that is no part of a snapshot.
Unit(kind, c) == [kind |-> kind, cookie |-> c]

ValueUnits(v) == IF v = "" THEN 0 ELSE IF v = "longer" THEN 2 ELSE 1

Line(c) ==
    <<Unit("open", c)>> \o [i \in 1..ValueUnits(c.value) |-> Unit("byte", NoCookie)]
                        \o <<Unit("close", NoCookie)>>

\* CookieStore::save_json writes the unexpired, persistent cookies only
Persisted(j) == {c \in j : ~c.expired /\ c.persistent}

\* the lines of a set of cookies, in each order the store may iterate in
RECURSIVE Serializations(_)
Serializations(S) ==
    IF S = {} THEN {<<>>}
    ELSE UNION {{Line(c) \o t : t \in Serializations(S \ {c})} : c \in S}

\* writing new from the start of a file opened with create and write, without
\* truncate: what the file held beyond the written length stays
Overwrite(old, new) ==
    IF Len(new) >= Len(old) THEN new ELSE new \o SubSeq(old, Len(new) + 1, Len(old))

\* save_cookie_store(path, cookie_store): s is the serialization save_json
\* produces, opened whether the file could be opened, written how many units
\* were written before a write failed (all of them: no failure)
save_cookie_store(f, s, opened, written) ==
    IF ~opened THEN [ok |-> FALSE, file |-> f]
    ELSE [ok |-> written = Len(s),
          file |-> File(TRUE, Overwrite(f.bytes, SubSeq(s, 1, written)))]

\* CookieStore::load_json: every line must be the line of a cookie; a cookie
\* read later replaces one read earlier under the same key
RECURSIVE load_json(_, _)
load_json(bytes, acc) ==
    IF bytes = <<>> THEN [ok |-> TRUE, jar |-> acc]
    ELSE LET c == Head(bytes).cookie
             n == Len(Line(c))
         IN  IF Head(bytes).kind = "open" /\ Len(bytes) >= n /\ SubSeq(bytes, 1, n) = Line(c)
               THEN load_json(SubSeq(bytes, n + 1, Len(bytes)),
                              IF c.expired THEN acc
                              ELSE {x \in acc : ~SameKey(x, c.domain, c.path, c.name)} \cup {c})
               ELSE [ok |-> FALSE, jar |-> {}]

\* the construction with a slip: the path is ignored and the jar starts empty
build_cookie_store_memory(hasPath, f, opened) == [result |-> Ok(<<>>), jar |-> {}, file |-> f]

\* build_cookie_store(cookie_path): no path gives an empty jar in memory; with a
\* path the file is opened (created if missing) and loaded
build_cookie_store(hasPath, f, opened) ==
    IF ~hasPath THEN [result |-> Ok(<<>>), jar |-> {}, file |-> f]
    ELSE IF ~opened THEN [result |-> Err("path error", 0), jar |-> {}, file |-> f]
    ELSE LET l == load_json(f.bytes, {})
         IN  [result |-> IF l.ok THEN Ok(<<>>) ELSE Err("load_json", 0),
              jar |-> l.jar, file |-> File(TRUE, f.bytes)]

\* the Set-Cookie headers of this specification: the markers, a longer value,
\* a session cookie, an expiring header, an opaque header
FileHeaders(s) ==
    IF s = "youdao"
      THEN { SetCookie("OUTFOX_SEARCH_USER_ID", "v1", TRUE, ServiceDomain(s), TRUE, Root, FALSE),
             SetCookie("DICT_PERS", "v1", TRUE, ServiceDomain(s), TRUE, Root, FALSE),
             SetCookie("DICT_PERS", "longer", TRUE, ServiceDomain(s), TRUE, Root, FALSE),
             SessionCookie(SetCookie("DICT_PERS", "v3", TRUE, ServiceDomain(s), TRUE, Root, FALSE)),
             SetCookie("OUTFOX_SEARCH_USER_ID", "", TRUE, ServiceDomain(s), TRUE, Root, TRUE),
             Opaque }
      ELSE { SetCookie("userToken", "v1", FALSE, <<>>, TRUE, Root, FALSE),
             SetCookie("userToken", "longer", FALSE, <<>>, TRUE, Root, FALSE),
             SessionCookie(SetCookie("userToken", "v3", FALSE, <<>>, TRUE, Root, FALSE)),
             SetCookie("other", "v1", TRUE, <<"com", "maimemo">>, TRUE, Root, FALSE),
             SetCookie("other", "", TRUE, <<"com", "maimemo">>, TRUE, Root, TRUE),
             Opaque }

\* what the file at cookie_path may hold before the first client is built:
\* nothing (missing), an empty file, something that is no snapshot
InitialFiles == {File(FALSE, <<>>), File(TRUE, <<>>), File(TRUE, <<Unit("junk", NoCookie)>>)}

InitFile ==
    /\ svc \in Services
    /\ config = FullConfig(svc)
    /\ verbose = FALSE
    /\ jar = {}
    /\ crashed = FALSE
    /\ Idle
    /\ NoUpload
    /\ NoOffset
    /\ NoStore
    /\ cookie_path \in BOOLEAN
    /\ file \in (IF cookie_path THEN InitialFiles ELSE {File(FALSE, <<>>)})
    /\ alive = FALSE
    /\ saved = NoSave

\* YoudaoClient::new / MaimemoClient::new: build_cookie_store and
\* build_general_client (built = FALSE: it failed), in the order of the client
New(opened, built) ==
    LET b == build_cookie_store(cookie_path, file, opened)
    IN  /\ ~alive
        /\ ~crashed
        /\ op' = "new"
        /\ result' = IF svc = "maimemo" /\ ~built THEN Err("build client", 0)
                     ELSE IF ~b.result.ok THEN b.result
                     ELSE IF ~built THEN Err("build client", 0)
                     ELSE Ok(<<>>)
        /\ alive' = (built /\ b.result.ok)
        /\ jar' = IF built /\ b.result.ok THEN b.jar ELSE {}
        /\ file' = IF svc = "maimemo" /\ ~built THEN file ELSE b.file
        /\ resp' = NoResp
        /\ UNCHANGED <<svc, config, verbose, crashed, arg, sent, served, urlCalls>>
        /\ UNCHANGED <<cookie_path, saved>>
        /\ UNCHANGED uploadVars
        /\ UNCHANGED offsetVars
        /\ UNCHANGED storeVars

\* the client ingests the Set-Cookie headers of a login response
Ingest(hs) ==
    LET t == config["login"]
        u == update_set_cookies(jar, hs, Url(t.host, t.path))
    IN  /\ alive
        /\ ~crashed
        /\ op' = "update_set_cookies"
        /\ result' = IF u.panic THEN Err("panic", 0) ELSE Ok(<<>>)
        /\ jar' = u.jar
        /\ crashed' = u.panic
        /\ resp' = [url |-> Url(t.host, t.path), setCookies |-> hs]
        /\ saved' = NoSave
        /\ UNCHANGED <<svc, config, verbose, arg, sent, served, urlCalls>>
        /\ UNCHANGED <<cookie_path, file, alive>>
        /\ UNCHANGED uploadVars
        /\ UNCHANGED offsetVars
        /\ UNCHANGED storeVars

\* the teardown with a slip: the file is written whether or not a cookie_path
\* is configured
DropClient_unconditional(s, opened, written) ==
    LET w == save_cookie_store(file, s, opened, written)
    IN  /\ alive
        /\ s \in Serializations(Persisted(jar))
        /\ written \in 0..Len(s)
        /\ op' = "drop"
        /\ alive' = FALSE
        /\ file' = w.file
        /\ saved' = [valid |-> cookie_path /\ w.ok,
                     clean |-> cookie_path /\ w.ok /\ w.file.bytes = s,
                     jar |-> jar]
        /\ jar' = {}
        /\ resp' = NoResp
        /\ UNCHANGED <<svc, config, verbose, crashed, arg, result, sent, served, urlCalls>>
        /\ UNCHANGED cookie_path
        /\ UNCHANGED uploadVars
        /\ UNCHANGED offsetVars
        /\ UNCHANGED storeVars

\* Drop for YoudaoClient / MaimemoClient: save_cookie_store if a cookie_path is
\* configured; an error of the save is logged
DropClient(s, opened, written) ==
    LET w == save_cookie_store(file, s, opened, written)
    IN  /\ alive
        /\ s \in Serializations(Persisted(jar))
        /\ written \in 0..Len(s)
        /\ op' = "drop"
        /\ alive' = FALSE
        /\ file' = IF cookie_path THEN w.file ELSE file
        /\ saved' = [valid |-> cookie_path /\ w.ok,
                     clean |-> cookie_path /\ w.ok /\ w.file.bytes = s,
                     jar |-> jar]
        /\ jar' = {}
        /\ resp' = NoResp
        /\ UNCHANGED <<svc, config, verbose, crashed, arg, result, sent, served, urlCalls>>
        /\ UNCHANGED cookie_path
        /\ UNCHANGED uploadVars
        /\ UNCHANGED offsetVars
        /\ UNCHANGED storeVars

\* has_logged with a slip: the lookup clears expired cookies out of the jar
HasLogged_pruning ==
    /\ alive
    /\ ~crashed
    /\ op' = "has_logged"
    /\ result' = Ok(<<has_logged(svc, jar)>>)
    /\ jar' = {c \in jar : ~c.expired}
    /\ UNCHANGED <<svc, config, verbose, crashed, arg, sent, served, resp, urlCalls>>
    /\ UNCHANGED <<cookie_path, file, alive, saved>>
    /\ UNCHANGED uploadVars
    /\ UNCHANGED offsetVars
    /\ UNCHANGED storeVars

\* YoudaoClient::has_logged / MaimemoClient::has_logged called on the client
HasLogged ==
    /\ alive
    /\ ~crashed
    /\ op' = "has_logged"
    /\ result' = Ok(<<has_logged(svc, jar)>>)
    /\ UNCHANGED <<svc, config, verbose, jar, crashed, arg, sent, served, resp, urlCalls>>
    /\ UNCHANGED <<cookie_path, file, alive, saved>>
    /\ UNCHANGED uploadVars
    /\ UNCHANGED offsetVars
    /\ UNCHANGED storeVars

\* time passes the expiry time of cookie c: CookieStore::get and
\* get_request_cookies no longer return it.  No operation of the client runs.
Elapse(c) ==
    /\ alive
    /\ ~crashed
    /\ c \in jar
    /\ c.persistent
    /\ ~c.expired
    /\ jar' = (jar \ {c}) \cup {[c EXCEPT !.expired = TRUE]}
    /\ saved' = NoSave
    /\ UNCHANGED <<svc, config, verbose, crashed, op, arg, result, sent, served, resp, urlCalls>>
    /\ UNCHANGED <<cookie_path, file, alive>>
    /\ UNCHANGED uploadVars
    /\ UNCHANGED offsetVars
    /\ UNCHANGED storeVars

NextFile ==
    \/ /\ ~alive /\ ~crashed
       /\ \E opened \in BOOLEAN, built \in BOOLEAN : New(opened, built)
    \/ /\ alive /\ ~crashed
       /\ \E hs \in SeqsUpTo(FileHeaders(svc), 1) : Ingest(hs)
    \/ /\ alive /\ ~crashed
       /\ HasLogged
    \/ /\ alive /\ ~crashed
       /\ \E c \in jar : Elapse(c)
    \/ /\ alive
       /\ \E s \in Serializations(Persisted(jar)), opened \in BOOLEAN :
             \E written \in 0..Len(s) : DropClient(s, opened, written)

SpecFile == InitFile /\ [][NextFile]_vars

----------------------------------------------------------------------------
(* Claims on SpecFile *)

\* what a jar's cookies look like in a request: domain, path, name, value
Proj(S) == {<<c.domain, c.path, c.name, c.value>> : c \in S}

\* the URLs the jars are compared on: every template's URL and the service root
FileUrls ==
    {Url(config[n].host, config[n].path) : n \in DOMAIN config}
    \cup {Url(ServiceDomain(svc), Root), Url(EvilDomain, Root)}

\* the client was built right after a drop whose save succeeded, and neither
\* opening the file nor building the HTTP client failed
Reloaded ==
    /\ op = "new"
    /\ saved.valid
    /\ result.err \notin {"path error", "build client"}

C15_SaveOverwrites ==
    (op = "drop" /\ saved.valid) => file.bytes \in Serializations(Persisted(saved.jar))

\* a step that constructs a client
StepNew == ~alive /\ op' = "new"

\* the file holds something that is no snapshot
Corrupt(f) == \E i \in 1..Len(f.bytes) : f.bytes[i].kind = "junk"

\* C16: build_cookie_store gives an empty in-memory jar when no path is
\* configured; with a path and a missing file the client starts with an empty
\* jar; with a file that holds a snapshot it starts with the snapshot's
\* cookies; with an unreadable or corrupt file it fails, and the client is not
\* constructed.
C16_BuildCookieStore ==
    [][StepNew =>
          /\ (~cookie_path /\ result'.ok) => (jar' = {} /\ file' = file)
          /\ (cookie_path /\ ~file.exists /\ result'.ok) =>
                (jar' = {} /\ file' = File(TRUE, <<>>))
          /\ (cookie_path /\ saved.clean /\ result'.ok) => jar' = Persisted(saved.jar)
          /\ (cookie_path /\ Corrupt(file)) => ~result'.ok
          /\ result'.ok <=> alive'
          /\ result'.err \in {"", "path error", "load_json", "build client"}
          /\ (result'.err \in {"path error", "load_json"} /\ svc = "youdao") => cookie_path
      ]_vars

C16_Witness ==
    /\ op = "new"
    /\ cookie_path
    /\ Corrupt(file)
    /\ result.err = "load_json"
    /\ ~alive

\* a step that drops the client
StepDrop == alive /\ ~alive'

\* C17: when a client is dropped, save_cookie_store is run on its jar if a
\* cookie_path is configured and the file is left alone otherwise; a failed
\* save changes nothing but the file: no panic, and the result of the last
\* operation stays.
C17_DropSaves ==
    [][StepDrop =>
          /\ result' = result
          /\ crashed' = crashed
          /\ ~cookie_path => (file' = file /\ ~saved'.valid)
          /\ cookie_path =>
                /\ saved'.jar = jar
                /\ saved'.valid =>
                      \E s \in Serializations(Persisted(jar)) :
                         file' = File(TRUE, Overwrite(file.bytes, s))
      ]_vars

C17_Witness ==
    /\ op = "drop"
    /\ cookie_path
    /\ ~saved.valid
    /\ saved.jar # {}
    /\ result.ok
    /\ ~crashed

\* a step in which has_logged is called (a second call that answers as the
\* first did leaves every variable as it is)
StepHasLogged == op' = "has_logged" /\ (op # "has_logged" \/ result' # result)

\* C25 as stated: has_logged changes neither the jar nor the client, and
\* consecutive calls with no response ingested in between return the same
\* value.
C25_AsStated ==
    [][ /\ StepHasLogged => UNCHANGED <<jar, config, cookie_path, file, alive, crashed>>
        /\ (op = "has_logged" /\ op' = "has_logged") => result' = result ]_vars

\* C25 amended: has_logged changes neither the jar nor the client and answers
\* whether the marker cookies are stored and unexpired at the time of the
\* call; two consecutive calls with no response ingested in between differ
\* only when a marker cookie reached its expiry time between them, and then
\* the answer goes from true to false.
C25_HasLoggedReadsJar ==
    [][ /\ StepHasLogged =>
              /\ UNCHANGED <<jar, config, cookie_path, file, alive, crashed>>
              /\ result' = Ok(<<has_logged(svc, jar)>>)
        /\ (op = "has_logged" /\ op' = "has_logged" /\ result' # result) =>
              /\ result.val = <<TRUE>>
              /\ result'.val = <<FALSE>>
              /\ ~has_logged(svc, jar)
              /\ \E c \in jar : c.name \in Markers(svc) /\ c.persistent /\ c.expired ]_vars

C25_Witness ==
    /\ op = "has_logged"
    /\ result.val = <<TRUE>>
    /\ has_logged(svc, jar)
    /\ \E c \in jar : c.expired
    /\ alive

----------------------------------------------------------------------------
(* Claims on SpecRetry *)

\* the requests of the last call built from template req_name
SentFor(req_name) == {i \in 1..Len(sent) : sent[i].name = req_name}

\* C26: one login() call dispatches the login template at most once, and the
\* Youdao priming template at most once, whatever the answers; in
\* upload_notepad the save requests dispatched are at most one more than the
\* "y" answers read at the continuation prompt, and so are the captcha
\* requests.
C26_NoAutoRetry ==
    /\ op = "login" =>
          /\ Cardinality(SentFor("login")) <= 1
          /\ Cardinality(SentFor("fetch-cookie-outfox-search-user-id")) <= 1
          /\ Len(sent) = Cardinality(SentFor("login"))
                          + Cardinality(SentFor("fetch-cookie-outfox-search-user-id"))
    /\ count.save <= 1 + count.yes
    /\ count.captcha <= 1 + count.yes

\* the submission failed, the operator answered "y", it failed again and the
\* operator declined
C26_Witness ==
    /\ pc = "done"
    /\ count.yes >= 1
    /\ count.save = count.yes + 1
    /\ count.failed = count.save
    /\ ~upResult.ok

----------------------------------------------------------------------------
(* Claims on Spec: the dispatcher's headers and cookies *)

\* C18: send_request never dispatches a request for a template whose header
\* map is absent: the call returns the "not found any headers" error (the
\* method is read first, so an invalid method is reported before it) and no
\* request reaches the transport, in a direct call and inside every client
\* operation.
C18_NoHeadersNoRequest ==
    /\ \A i \in 1..Len(sent) : config[sent[i].name].headers # {}
    /\ (op = "send_request" /\ arg \in DOMAIN config /\ config[arg].headers = {}) =>
          /\ ~result.ok
          /\ sent = <<>>
          /\ config[arg].method # "" => result.err = "not found any headers"

C18_Witness ==
    /\ op = "send_request"
    /\ arg \in DOMAIN config
    /\ config[arg].headers = {}
    /\ config[arg].method # ""
    /\ result.err = "not found any headers"
    /\ sent = <<>>
    /\ urlCalls = 1

\* the entries of a header map the HTTP library accepts
ValidEntries(H) == {h \in H : HeaderNameOk(Lower(h.key)) /\ HeaderValueOk(h.val)}

\* the header map of the template a request was built from
Configured(r) == CHOOSE H \in config[r.name].headers : TRUE

\* C19: every dispatched request carries each valid entry of its template's
\* header map (name in lower case) and none of the invalid ones; a template
\* with an invalid entry is still dispatched, and the only errors of such a
\* call are the ones a clean template has too (content-type lookup for a body,
\* transport, status).  The header maps considered have keys that differ by
\* more than letter case.
C19_SkipsInvalidHeaders ==
    /\ \A i \in 1..Len(sent) :
          /\ \A h \in ValidEntries(Configured(sent[i])) :
                <<Lower(h.key), h.val>> \in sent[i].headers
          /\ \A p \in sent[i].headers :
                \E h \in ValidEntries(Configured(sent[i])) : p = <<Lower(h.key), h.val>>
    /\ ( /\ op = "send_request"
         /\ arg \in DOMAIN config
         /\ config[arg].method # ""
         /\ \E H \in config[arg].headers : ValidEntries(H) # H
         /\ ~crashed
         /\ result.err # "not found content-type" ) =>
          /\ Len(sent) = 1
          /\ sent[1].name = arg
          /\ result.err \in {"", "transport", "Response code error"}

C19_Witness ==
    /\ op = "send_request"
    /\ arg = "login"
    /\ ValidEntries(Configured(sent[1])) # Configured(sent[1])
    /\ result.ok
    /\ <<"user-agent", "Mozilla">> \in sent[1].headers
    /\ \A p \in sent[1].headers : p[1] # "bad name" /\ HeaderValueOk(p[2])

\* C20: a dispatched request carries as its Cookie header exactly the
\* name=value pairs of the jar's cookies applicable to the rewritten URL
\* (login ingests cookies between its requests, so it is left to its own
\* claims); with no applicable cookie the request has no Cookie header and the
\* call succeeds whenever the response's status is accepted.
C20_CookieHeader ==
    /\ op # "login" =>
          \A i \in 1..Len(sent) :
              sent[i].cookie =
                  {<<c.name, c.value>> :
                      c \in Applicable(jar, RewrittenUrl(config[sent[i].name], sent[i].tail))}
    /\ ( /\ op = "send_request"
         /\ Answered(1)
         /\ sent[1].cookie = {}
         /\ served[1].status \in {200, 302} ) => result.ok

C20_Witness ==
    /\ op = "get_notepad_contents"
    /\ result.ok
    /\ sent[1].cookie = {<<"userToken", "v1">>, <<"lastViewed", "v1">>}
    /\ \E c \in jar : c.name = "lastViewed" /\ ~IsPrefix(c.path, config["notepad-detail"].path)

\* the Content-Type value configured for the template of request r
ConfiguredType(r) == CHOOSE v \in content_type(Configured(r)) : TRUE

\* C21: a body is form-encoded when the template's Content-Type contains
\* application/x-www-form-urlencoded and JSON-encoded when it contains
\* application/json; for any other content type nothing is dispatched and the
\* call returns an error to its caller.
C21_BodyEncoding ==
    /\ \A i \in 1..Len(sent) :
          sent[i].hasBody =>
              /\ Contains(ConfiguredType(sent[i]), "application/x-www-form-urlencoded")
                    => sent[i].encoding = "form"
              /\ ( /\ ~Contains(ConfiguredType(sent[i]), "application/x-www-form-urlencoded")
                   /\ Contains(ConfiguredType(sent[i]), "application/json") )
                    => sent[i].encoding = "json"
              /\ sent[i].encoding \in {"form", "json"}
    /\ op = "send_request" => ~crashed

\* C22: one send_request call puts at most one request on the wire: every
\* dispatched request is a configured template's and has exactly one answer,
\* a 302 answer is returned to the caller as Ok with its status and headers,
\* and the request carries no cookie but the jar's.
C22_OneRequestPerCall ==
    /\ Len(sent) <= urlCalls
    /\ Len(sent) = Len(served)
    /\ \A i \in 1..Len(sent) : sent[i].name \in DOMAIN config
    /\ op = "send_request" =>
          /\ Len(sent) <= 1
          /\ \A i \in 1..Len(sent) : sent[i].cookie \subseteq {<<c.name, c.value>> : c \in jar}
          /\ (Answered(1) /\ served[1].status = 302) =>
                /\ result.ok
                /\ result.val = <<302>>
                /\ resp # NoResp

C22_Witness ==
    /\ op = "send_request"
    /\ Len(sent) = 1
    /\ Answered(1)
    /\ served[1].status = 302
    /\ result.val = <<302>>
    /\ resp.setCookies # <<>>
    /\ sent[1].cookie # {}

\* the operations that call update_set_cookies
IngestingOps == {"login"}

\* C23: a send_request call leaves the jar as it was whatever Set-Cookie
\* headers the response carries, and so does every client operation but
\* login: the jar changes only in a step of login.
C23_JarChangesOnlyInLogin ==
    [][ /\ (op = "idle" /\ op' \notin IngestingOps) => jar' = jar
        /\ jar' # jar => op' \in IngestingOps ]_vars

C23_Witness ==
    /\ op \in {"send_request", "get_notepad_list", "get_notepad_contents", "refresh_captcha",
                "get_words", "get_words_total"}
    /\ result.ok
    /\ resp.setCookies # <<>>
    /\ update_set_cookies(jar, resp.setCookies, resp.url).jar # jar

\* the Cookie header fill_request_cookies builds for request r from jar j
CookieHeader(j, r) ==
    {<<c.name, c.value>> : c \in Applicable(j, RewrittenUrl(config[r.name], r.tail))}

\* the jar of a Youdao client after the priming response was ingested
Primed(j, answers) ==
    update_set_cookies(j, answers[1].setCookies, Url(YoudaoHost, Root)).jar

\* C24: the Cookie header of a dispatched request is built from the jar as it
\* is when the request is dispatched: outside login that is the jar the
\* operation started with; in Youdao login the priming request is built from
\* the jar the call started with and the login request from that jar with the
\* priming response's cookies ingested.
C24_CookiesAtDispatch ==
    [][ op = "idle" =>
          /\ op' # "login" =>
                \A i \in 1..Len(sent') : sent'[i].cookie = CookieHeader(jar, sent'[i])
          /\ (op' = "login" /\ Len(sent') >= 1) =>
                sent'[1].cookie = CookieHeader(jar, sent'[1])
          /\ (op' = "login" /\ Len(sent') = 2) =>
                sent'[2].cookie = CookieHeader(Primed(jar, served'), sent'[2]) ]_vars

\* the priming response set a cookie the client did not hold, and the login
\* request carries it
C24_Witness ==
    /\ svc = "youdao"
    /\ op = "login"
    /\ Len(sent) = 2
    /\ served[1].setCookies # <<>>
    /\ \E p \in sent[2].cookie : p \notin sent[1].cookie /\ p[1] = served[1].setCookies[1].name

\* the name of the template prapre_login sends
PrimingName == "fetch-cookie-outfox-search-user-id"

\* C27: in Youdao login() the login request is dispatched only after the
\* priming request was answered with an accepted status, and its Cookie header
\* is built from the jar with the priming response's cookies ingested; the jar
\* login() leaves holds the login response's cookies as well, and login()
\* returns Ok exactly when that response carried a Set-Cookie header and
\* has_logged() holds of that jar; when the priming request fails no login
\* request is dispatched.
C27_LoginOrder ==
    [][ (op = "idle" /\ op' = "login" /\ svc = "youdao") =>
          /\ \A i \in 1..Len(sent') :
                sent'[i].name = "login" =>
                    /\ i = 2
                    /\ sent'[1].name = PrimingName
                    /\ ~served'[1].transport
                    /\ served'[1].status \in {200, 302}
                    /\ sent'[2].cookie = CookieHeader(Primed(jar, served'), sent'[2])
          /\ ( /\ Len(served') = 2
               /\ ~served'[2].transport
               /\ served'[2].status \in {200, 302}
               /\ ~crashed' ) =>
                /\ jar' = update_set_cookies(Primed(jar, served'), served'[2].setCookies,
                                              Url(config["login"].host, config["login"].path)).jar
                /\ result'.ok <=> (served'[2].setCookies # <<>> /\ has_logged(svc, jar'))
          /\ ( /\ Len(served') >= 1
               /\ served'[1].transport \/ served'[1].status \notin {200, 302} ) =>
                Len(sent') = 1 /\ ~result'.ok /\ jar' = jar ]_vars

\* the client held no cookie, the priming response set one marker and the
\* login response the other
C27_Witness ==
    /\ svc = "youdao"
    /\ op = "login"
    /\ result.ok
    /\ Len(sent) = 2
    /\ sent[1].cookie = {}
    /\ sent[2].cookie = {<<"OUTFOX_SEARCH_USER_ID", "v1">>}
    /\ \E i \in 1..Len(served[2].setCookies) : served[2].setCookies[i].name = "DICT_PERS"

\* C28 as stated: once has_logged() is true it stays true after every
\* operation of the client.
C28_AsStated == [][has_logged(svc, jar) => has_logged(svc, jar')]_vars

\* some response of the last call carries a Set-Cookie header that expires a
\* session marker
ExpiresMarker(answers) ==
    \E i \in 1..Len(answers) : \E k \in 1..Len(answers[i].setCookies) :
        /\ answers[i].setCookies[k].kind = "cookie"
        /\ answers[i].setCookies[k].expired
        /\ answers[i].setCookies[k].name \in Markers(svc)

\* C28 amended: no cookie is ever taken out of the jar (a key once stored
\* stays stored), and has_logged() goes from true to false only in a login()
\* whose response carries a Set-Cookie header that expires a marker cookie;
\* list, fetch detail, refresh captcha, save and get words leave it true.
C28_LoggedUntilExpired ==
    [][ /\ \A c \in jar : \E n \in jar' : SameKey(n, c.domain, c.path, c.name)
        /\ (has_logged(svc, jar) /\ ~has_logged(svc, jar')) =>
              /\ op' = "login"
              /\ ExpiresMarker(served') ]_vars

\* a logged-in client has logged in again and is still logged in
C28_Witness ==
    /\ op = "login"
    /\ result.ok
    /\ has_logged(svc, jar)
    /\ \E p \in sent[Len(sent)].cookie : p[1] \in Markers(svc)
    /\ ~ExpiresMarker(served)

----------------------------------------------------------------------------
(* Claims on SpecOffset *)

\* C30: on a list of N items filter_offset with a positive offset k <= N
\* leaves the first k items in their order, with a negative offset -k, k <= N,
\* the last k items in their order, and with offset 0 the list as it was.
C30_FilterOffset ==
    filtered.done =>
        LET N == Len(offWords)
        IN  /\ (offArg > 0 /\ offArg <= N) =>
                  /\ ~filtered.panic /\ ~filtered.spins
                  /\ filtered.words = [i \in 1..offArg |-> offWords[i]]
            /\ (offArg < 0 /\ 0 - offArg <= N) =>
                  /\ ~filtered.panic /\ ~filtered.spins
                  /\ filtered.words = [i \in 1..(0 - offArg) |-> offWords[N + offArg + i]]
            /\ offArg = 0 =>
                  /\ ~filtered.panic /\ ~filtered.spins
                  /\ filtered.words = offWords

C30_Witness ==
    /\ filtered.done
    /\ offWords = <<"a", "b", "c">>
    /\ offArg = 0 - 2
    /\ filtered.words = <<"b", "c">>

\* s holds items of ws only, in the order they have in ws
TakenInOrder(s, ws) ==
    \E f \in [1..Len(s) -> 1..Len(ws)] :
        /\ \A i, k \in 1..Len(s) : i < k => f[i] < f[k]
        /\ \A i \in 1..Len(s) : s[i] = ws[f[i]]

\* C39: filter_offset on a list of N items with an offset beyond the list,
\* offset > N or offset < -N, completes without an arithmetic underflow and
\* without a panic, and leaves at most N items, all of the original list and
\* in its order.
C39_TotalOverEveryOffset ==
    LET N == Len(offWords)
    IN  (filtered.done /\ (offArg > N \/ 0 - offArg > N)) =>
            /\ ~filtered.panic
            /\ ~filtered.spins
            /\ Len(filtered.words) <= N
            /\ TakenInOrder(filtered.words, offWords)

\* the words of ws modified within [start_date, end_date]; a bound that is
\* absent does not restrict
Within(ws) ==
    SelectSeq(ws, LAMBDA w :
        /\ start_date.kind = "date" => modified_time(w) >= start_date.day
        /\ end_date.kind = "date" => modified_time(w) <= end_date.day)

\* how often w occurs in ws
Occurrences(ws, w) == Cardinality({i \in 1..Len(ws) : ws[i] = w})

\* C31: YoudaoApp::list returns exactly the words whose modified time lies in
\* the inclusive interval [start_date, end_date] (a missing bound does not
\* restrict), sorted in ascending order of modified time before the offset
\* filter is applied.
C31_ListAscending ==
    listed.done =>
        /\ \A w \in Items : Occurrences(listed.sorted, w) = Occurrences(Within(offWords), w)
        /\ \A i, k \in 1..Len(listed.sorted) :
               i < k => modified_time(listed.sorted[i]) <= modified_time(listed.sorted[k])

----------------------------------------------------------------------------
(* SpecStore: WordStore (word_store.rs): persist(path) and from_file(path) *)

\* the characters of the strings: a letter, a double quote, a backslash, a
\* line feed
Chars == {"n", "quote", "backslash", "LF"}

\* WordItem; a String is a sequence of characters
WordItem(word, trans, t) ==
    [item_id |-> <<"n">>, book_id |-> <<"n">>, book_name |-> <<>>, word |-> word,
     trans |-> trans, phonetic |-> <<"n">>, modified_time |-> t]

\* the words a store holds: translations of several lines, quotes and
\* backslashes in a word; modified_time in seconds
WordItems ==
    {WordItem(w, <<"n", "LF", "n">>, 1564152487) :
        w \in {<<"n">>, <<"quote">>, <<"backslash", "n">>, <<"n", "backslash">>}}
    \cup {WordItem(<<"n">>, <<>>, 0)}

\* The JSON text is a sequence of units: a punctuation mark, the quoted name
\* of a field with its colon, one character of a string, or a number.
Punct(p) == [t |-> "punct", s |-> p, n |-> 0]
Key(k) == [t |-> "key", s |-> k, n |-> 0]
Char(c) == [t |-> "char", s |-> c, n |-> 0]
Num(x) == [t |-> "num", s |-> "", n |-> x]

\* the fields of WordItem under their serde names, in the order of the struct
Fields == <<"itemId", "bookId", "bookName", "word", "trans", "phonetic", "modifiedTime">>

\* the value of the field serialized under name k
FieldOf(w, k) ==
    CASE k = "itemId" -> w.item_id
      [] k = "bookId" -> w.book_id
      [] k = "bookName" -> w.book_name
      [] k = "word" -> w.word
      [] k = "trans" -> w.trans
      [] k = "phonetic" -> w.phonetic
      [] OTHER -> w.modified_time

\* the sequences of ss, one after the other
RECURSIVE Concat(_)
Concat(ss) == IF ss = <<>> THEN <<>> ELSE Head(ss) \o Concat(Tail(ss))

\* serde_json writes a quote, a backslash and a line feed of a string escaped
Escaped(c) ==
    IF c = "quote" THEN <<Char("backslash"), Char("quote")>>
    ELSE IF c = "backslash" THEN <<Char("backslash"), Char("backslash")>>
    ELSE IF c = "LF" THEN <<Char("backslash"), Char("n")>>
    ELSE <<Char(c)>>

JsonString(str) ==
    <<Char("quote")>> \o Concat([i \in 1..Len(str) |-> Escaped(str[i])]) \o <<Char("quote")>>

JsonItem(w) ==
    <<Punct("{")>>
    \o Concat([i \in 1..Len(Fields) |->
                  (IF i > 1 THEN <<Punct(",")>> ELSE <<>>)
                  \o <<Key(Fields[i])>>
                  \o (IF Fields[i] = "modifiedTime" THEN <<Num(w.modified_time)>>
                      ELSE JsonString(FieldOf(w, Fields[i])))])
    \o <<Punct("}")>>

\* serde_json::to_string(&self.words)
to_string(ws) ==
    <<Punct("[")>>
    \o Concat([i \in 1..Len(ws) |-> (IF i > 1 THEN <<Punct(",")>> ELSE <<>>) \o JsonItem(ws[i])])
    \o <<Punct("]")>>

\* a parse that failed
NoParse == [ok |-> FALSE, val |-> <<>>, next |-> 0]

\* the unit at position i, if the text is that long
At(bytes, i) == IF i <= Len(bytes) THEN bytes[i] ELSE Punct("end")

\* the characters of a string from position i up to its closing quote
RECURSIVE ReadChars(_, _, _)
ReadChars(bytes, i, acc) ==
    LET b == At(bytes, i)
        c == At(bytes, i + 1)
    IN  IF b.t # "char" THEN NoParse
        ELSE IF b.s = "quote" THEN [ok |-> TRUE, val |-> acc, next |-> i + 1]
        ELSE IF b.s = "LF" THEN NoParse                 \* a control character
        ELSE IF b.s = "backslash"
          THEN IF c = Char("quote") THEN ReadChars(bytes, i + 2, Append(acc, "quote"))
               ELSE IF c = Char("backslash") THEN ReadChars(bytes, i + 2, Append(acc, "backslash"))
               ELSE IF c = Char("n") THEN ReadChars(bytes, i + 2, Append(acc, "LF"))
               ELSE NoParse
        ELSE ReadChars(bytes, i + 1, Append(acc, b.s))

\* the fields of an object from position i up to its closing brace: a field
\* may come at any place, none twice, none missing
RECURSIVE ReadFields(_, _, _)
ReadFields(bytes, i, got) ==
    LET k == At(bytes, i)
        v == At(bytes, i + 1)
        Continued(g, next) ==
            IF At(bytes, next) = Punct(",") THEN ReadFields(bytes, next + 1, g)
            ELSE IF At(bytes, next) = Punct("}") /\ DOMAIN g = {Fields[n] : n \in 1..Len(Fields)}
              THEN [ok |-> TRUE,
                    val |-> [item_id |-> g["itemId"], book_id |-> g["bookId"],
                             book_name |-> g["bookName"], word |-> g["word"],
                             trans |-> g["trans"], phonetic |-> g["phonetic"],
                             modified_time |-> g["modifiedTime"]],
                    next |-> next + 1]
            ELSE NoParse
        Text(str) ==
            IF str.ok THEN Continued(got @@ (k.s :> str.val), str.next) ELSE NoParse
    IN  IF k.t # "key" \/ k.s \in DOMAIN got THEN NoParse
        ELSE IF k.s = "modifiedTime"
          THEN IF v.t = "num" THEN Continued(got @@ (k.s :> v.n), i + 2) ELSE NoParse
        ELSE IF v = Char("quote") THEN Text(ReadChars(bytes, i + 2, <<>>))
        ELSE NoParse

\* the items of an array from position i up to its closing bracket
RECURSIVE ReadItems(_, _, _)
ReadItems(bytes, i, acc) ==
    LET Item(w) ==
            IF ~w.ok THEN NoParse
            ELSE IF At(bytes, w.next) = Punct(",") THEN ReadItems(bytes, w.next + 1, Append(acc, w.val))
            ELSE IF At(bytes, w.next) = Punct("]")
              THEN [ok |-> TRUE, val |-> Append(acc, w.val), next |-> w.next + 1]
            ELSE NoParse
    IN  IF At(bytes, i) = Punct("{") THEN Item(ReadFields(bytes, i + 1, <<>>)) ELSE NoParse

\* serde_json::from_str::<Vec<WordItem>>(text): the whole text is one array
from_str(bytes) ==
    LET Whole(a) == IF a.ok /\ a.next = Len(bytes) + 1 THEN a ELSE NoParse
    IN  IF At(bytes, 1) # Punct("[") THEN NoParse
        ELSE IF At(bytes, 2) = Punct("]") THEN Whole([ok |-> TRUE, val |-> <<>>, next |-> 3])
        ELSE Whole(ReadItems(bytes, 2, <<>>))

\* WordStore::from_file(from_file): fs::read_to_string(..)? and
\* from_str(..).unwrap() (readable = FALSE: the file could not be read)
from_file(f, readable) ==
    LET Parsed(p) == [done |-> TRUE, ok |-> p.ok, panic |-> ~p.ok, words |-> p.val]
    IN  IF ~f.exists \/ ~readable
          THEN [done |-> TRUE, ok |-> FALSE, panic |-> FALSE, words |-> <<>>]
        ELSE Parsed(from_str(f.bytes))

\* persist with a slip: the file is written from its start without being
\* truncated
persist_untruncated(f, ws, opened, written) ==
    IF ~opened THEN [ok |-> FALSE, file |-> f]
    ELSE [ok |-> written = Len(to_string(ws)),
          file |-> File(TRUE, Overwrite(f.bytes, SubSeq(to_string(ws), 1, written)))]

\* WordStore::persist(to_file): fs::write creates the file or truncates it and
\* writes the text (opened = FALSE: it could not be created; written: the units
\* written before a write failed, all of them: no failure)
persist(f, ws, opened, written) ==
    IF ~opened THEN [ok |-> FALSE, file |-> f]
    ELSE [ok |-> written = Len(to_string(ws)),
          file |-> File(TRUE, SubSeq(to_string(ws), 1, written))]

\* the file at the path before the first persist: missing, holding other
\* text, holding the words of a longer store
StoreFiles ==
    {File(FALSE, <<>>), File(TRUE, <<Char("n")>>),
     File(TRUE, to_string([i \in 1..(MaxStored + 1) |-> WordItem(<<"n">>, <<>>, 0)]))}

InitStore ==
    /\ svc \in Services
    /\ config = FullConfig(svc)
    /\ verbose = FALSE
    /\ jar = {}
    /\ crashed = FALSE
    /\ Idle
    /\ NoUpload
    /\ NoFiles
    /\ NoOffset
    /\ store \in SeqsUpTo(WordItems, MaxStored)
    /\ words_file \in StoreFiles
    /\ persisted = NotPersisted
    /\ loaded = NotLoaded

\* store.persist(path)
Persist(opened, written) ==
    /\ ~persisted.valid
    /\ written \in {0, Len(to_string(store)) - 1, Len(to_string(store))}
    /\ words_file' = persist(words_file, store, opened, written).file
    /\ persisted' = [valid |-> persist(words_file, store, opened, written).ok, words |-> store]
    /\ loaded' = NotLoaded
    /\ UNCHANGED store
    /\ UNCHANGED clientVars
    /\ UNCHANGED uploadVars
    /\ UNCHANGED fileVars
    /\ UNCHANGED offsetVars

\* WordStore::from_file(path)
FromFile(readable) ==
    /\ ~loaded.done
    /\ loaded' = from_file(words_file, readable)
    /\ UNCHANGED <<store, words_file, persisted>>
    /\ UNCHANGED clientVars
    /\ UNCHANGED uploadVars
    /\ UNCHANGED fileVars
    /\ UNCHANGED offsetVars

NextStore ==
    \/ /\ ~persisted.valid
       /\ \E opened \in BOOLEAN,
             written \in {0, Len(to_string(store)) - 1, Len(to_string(store))} :
             Persist(opened, written)
    \/ /\ ~loaded.done
       /\ \E readable \in BOOLEAN : FromFile(readable)

SpecStore == InitStore /\ [][NextStore]_vars

\* this step is a Youdao login() whose login request was answered 200 or 302
\* without any Set-Cookie header
LoginWithoutSetCookie ==
    /\ op = "idle"
    /\ svc = "youdao"
    /\ LoginAnswered'
    /\ Len(sent') = 2
    /\ served'[2].setCookies = <<>>

\* C36 as stated: Youdao login() returns the 'no Set-Cookie in login response'
\* error whenever the login response carries no Set-Cookie header, even if
\* has_logged() is true at that point because the jar already held every
\* session-marker cookie; the jar is left as it was after the priming
\* ingestion.
C36_AsStated ==
    [][ LoginWithoutSetCookie =>
          /\ ~result'.ok
          /\ result'.err = NoSetCookieMsg
          /\ jar' = Primed(jar, served') ]_vars

\* C36: for a login response without Set-Cookie header Youdao login() returns
\* the 'no Set-Cookie in login response' error, or the read error when the
\* body of that response cannot be read, even if has_logged() is true at that
\* point because the jar already held every session-marker cookie; the jar is
\* left as it was after the priming ingestion.
C36_NoSetCookieIsAnError ==
    [][ LoginWithoutSetCookie =>
          /\ ~result'.ok
          /\ result'.err = IF Unreadable(served'[2].body) THEN "reqwest::Error" ELSE NoSetCookieMsg
          /\ jar' = Primed(jar, served') ]_vars

C36_Witness ==
    /\ LoginAnswered
    /\ svc = "youdao"
    /\ Len(sent) = 2
    /\ served[2].setCookies = <<>>
    /\ has_logged(svc, jar)
    /\ ~result.ok
    /\ result.err = NoSetCookieMsg

----------------------------------------------------------------------------
(* Claims on the content and the attempts of upload_notepad (SpecUpload) *)

\* the content upload_notepad is to submit, from its arguments and the record
\* as it was when the call began
Submission ==
    LET n == before.notepads[CHOOSE i \in Find(before.notepads, upId) : TRUE]
    IN  (IF upArgs.is_appending THEN n.contents ELSE <<>>)
        \o (IF upArgs.timestamp THEN <<"# timestamp">> ELSE <<>>)
        \o upArgs.lines

AttemptInOrder ==
    \A i \in 1..Len(log) :
       /\ log[i].ev = "save" =>
             /\ i >= 3
             /\ log[i - 2].ev = "captcha" /\ log[i - 2].dispatched /\ log[i - 2].ok
             /\ log[i - 1].ev = "solution" /\ log[i - 1].read = "line"
             /\ log[i].line = log[i - 1].line
       /\ log[i].ev = "captcha" => \A k \in 1..(i - 1) : log[k].ev = "answer"
       /\ log[i].ev = "solution" => i >= 2 /\ log[i - 1].ev = "captcha"

\* C34: within one upload attempt the captcha request comes first, then one
\* operator line is read, then the save request is sent with that line as the
\* solution: the client dispatches no other request between an attempt's
\* captcha request and its save request, and a save never carries a solution
\* typed for an earlier attempt's captcha.
C34_CaptchaLineSave ==
    [][/\ AttemptInOrder'
       /\ pc = "solution" =>
             /\ pc' \in {"save", "prompt"}
             /\ UNCHANGED <<op, sent, served, count>>
       /\ pc = "save" =>
             /\ op = "refresh_captcha" /\ Len(sent) = 1 /\ sent[1].name = "service-captcha"
             /\ op' = "save_notepad"
             /\ \A i \in 1..Len(sent') : i = 1 /\ sent'[i].name = "notepad-save"
             /\ log'[Len(log')].ev = "save"
             /\ log'[Len(log')].line = captcha
             /\ log[Len(log)].ev = "solution" /\ log[Len(log)].line = captcha]_vars

C34_Witness ==
    /\ pc = "prompt"
    /\ count.yes = 1
    /\ count.captcha = 2
    /\ count.save = 2
    /\ Len(log) = 4
    /\ log[2].ev = "captcha"
    /\ log[3].ev = "solution" /\ log[3].line = "abcd"
    /\ log[4].ev = "save" /\ log[4].dispatched /\ log[4].line = "abcd"

\* the last event of the current attempt
LastEvent == log[Len(log)]

\* the current attempt has sent a save request
SaveSent == \E i \in 1..Len(log) : log[i].ev = "save" /\ log[i].dispatched

CalledWithoutContents ==
    /\ pc # "start"
    /\ \E i \in Find(before.notepads, upId) : ~before.notepads[i].has

\* C40: upload_notepad for a local record whose contents are None has ended
\* with an error value returned to the caller; no captcha was requested and no
\* save request was sent.
C40_NoContentsIsAnError ==
    CalledWithoutContents =>
        /\ Returned
        /\ ~upResult.ok
        /\ ~crashed
        /\ count.captcha = 0
        /\ count.save = 0
        /\ sent = <<>>

\* the input stream is a pipe or a file and has been read to its end
AtEndOfStream == ~stdin.tty /\ stdin.eof

\* C38: when the input stream is at its end at the captcha prompt (the new
\* content was read from it to the end), the read of the solution fails: no
\* save request is sent and the continuation prompt follows; the prompt reads
\* no line either, and upload_notepad ends there with the error "line is none",
\* the notepads and is_updated as they were before the call.
C38_EndOfStreamAtCaptcha ==
    /\ [][pc = "solution" /\ AtEndOfStream =>
             /\ pc' = "prompt"
             /\ LastEvent' = Event("solution", FALSE, FALSE, ReadEof, <<>>)
             /\ count' = count
             /\ sent' = sent
             /\ AtEndOfStream']_vars
    /\ [][pc = "prompt" /\ AtEndOfStream =>
             /\ pc' = "done"
             /\ LastEvent' = Event("answer", FALSE, FALSE, ReadEof, <<>>)
             /\ upResult' = Err("line is none", 0)
             /\ ~crashed'
             /\ count'.save = count.save
             /\ notepads' = before.notepads
             /\ is_updated' = before.is_updated]_vars

\* the content came from a pipe, the captcha was shown, and neither the
\* solution nor the answer could be read
C38_Witness ==
    /\ pc = "done"
    /\ AtEndOfStream
    /\ Len(log) = 3
    /\ log[1].ev = "captcha" /\ log[1].ok
    /\ log[2] = Event("solution", FALSE, FALSE, ReadEof, <<>>)
    /\ log[3] = Event("answer", FALSE, FALSE, ReadEof, <<>>)
    /\ count.save = 0
    /\ upResult = Err("line is none", 0)

\* C37: upload_notepad terminates: when the operator gives at most
\* MaxAttempts - 1 "y" answers (after them the answer is another line, the end
\* of the stream or a read error) the workflow ends, with Ok, with an error or
\* with the panic of a failed print; and an attempt starts only as the first
\* one or after a "y" line read at the continuation prompt.
C37_Terminates ==
    /\ <>(pc \in {"done", "dropped"})
    /\ [][pc' = "attempt" =>
             \/ pc = "start"
             \/ /\ pc = "prompt"
                /\ LastEvent' = Event("answer", FALSE, TRUE, ReadLine("y"), <<>>)
                /\ count'.yes = count.yes + 1]_vars

\* the workflow has ended after the operator asked for every further attempt
\* the bound allows
C37_Witness ==
    /\ pc = "done"
    /\ count.attempts = MaxAttempts
    /\ count.yes = MaxAttempts - 1
    /\ count.failed >= 1

----------------------------------------------------------------------------
(* Claims on SpecStore *)

\* C32: persisting a store's words with persist(path) and then building a
\* store with from_file(path) yields a store whose words are equal to the
\* original words, in the same order; persist replaces any previous content
\* of the file.
C32_RoundTrip ==
    /\ persisted.valid => words_file = File(TRUE, to_string(persisted.words))
    /\ (persisted.valid /\ loaded.done /\ (loaded.ok \/ loaded.panic)) =>
          /\ loaded.ok
          /\ loaded.words = persisted.words

C32_Witness ==
    /\ persisted.valid
    /\ Len(persisted.words) = 2
    /\ persisted.words[1].word = <<"backslash", "n">>
    /\ persisted.words[2].word = <<"quote">>
    /\ loaded.ok
    /\ loaded.words = persisted.words

====
